---- MODULE Spec2Model ----
(***************************************************************************)
(* Model of the yewoh protocol core (crates/core/src/protocol/mod.rs):     *)
(* the packet registry, the framing Reader and the framing Writer.         *)
(*                                                                         *)
(* A byte is a number in 0..255 and a stream is a sequence of bytes.       *)
(* `inbound' is everything the Reader's half of a connection has been      *)
(* handed by the network so far, `outbound' everything the Writer's half   *)
(* has delivered to the network so far.  Twelve systems are described:     *)
(*   Spec        a Writer at one end of a connection feeding the Reader at *)
(*               the other end;                                            *)
(*   SpecRaw     a Reader fed arbitrary bytes by a peer that is not a      *)
(*               Writer;                                                   *)
(*   SpecWriter  a Writer on its own;                                      *)
(*   SpecBig     a Writer given packets of about 64 KiB;                   *)
(*   SpecEnd     the Reader and the Writer of one end, side by side;       *)
(*   SpecBroadcast  one packet sent to several connections;                *)
(*   SpecAny     AnyPacket values made, downcast and dropped;              *)
(*   SpecRegistry   threads racing for the first use of the registry;      *)
(*   SpecTwofish    the Twofish cipher (protocol/encryption/twofish.rs);   *)
(*   SpecUpdate  send_update of the server (world/net/update.rs);          *)
(*   SpecWorld   the systems of update.rs that cache an entity's state;    *)
(*   SpecSeen    what the clients can see and have seen.                   *)
(***************************************************************************)
EXTENDS Integers, Sequences, FiniteSets, TLC

(***************************************************************************)
(* Bounds of the model.                                                    *)
(***************************************************************************)
\* most bytes the Writer is given to carry in one behaviour
MaxWire == 5
\* most bytes the peer of SpecRaw writes in one behaviour
MaxPeerBytes == 6
\* most bytes the Writer is given to carry in one behaviour of SpecBig
MaxBigWire == 65538
\* most bytes one Packet::encode call writes
MaxBody == 1
\* most receive calls on the Reader
MaxReceives == 3
\* most calls on the Writer
MaxCalls == 3

(***************************************************************************)
(* Packet types.  The types themselves live in protocol/login.rs; what the *)
(* core sees of them is the Packet trait (mod.rs:27-33): a kind, a fixed   *)
(* length per version, decode and encode.  Fixed lengths are kept small.   *)
(***************************************************************************)
\* Option<T>: None is the empty sequence, Some(x) the one-element sequence.
None == << >>
Some(x) == << x >>
IsSome(o) == o # << >>
Unwrap(o) == o[1]

\* ClientVersion values a connection may have negotiated
Versions == {1, 2}

\* The static registration list of packet_registry, in source order.
RegistrationList ==
    << "Seed", "AccountLogin", "ServerList", "SelectGameServer",
       "CharacterList", "GameServerLogin", "CreateCharacterClassic",
       "CreateCharacterEnhanced", "DeleteCharacter", "SelectCharacter" >>

\* T::packet_kind().  LegacySeed is a packet type too, though not one of the
\* registration list.
PacketKind(t) ==
    CASE t = "Seed"                    -> 239
      [] t = "AccountLogin"            -> 128
      [] t = "ServerList"              -> 168
      [] t = "SelectGameServer"        -> 160
      [] t = "CharacterList"           -> 169
      [] t = "GameServerLogin"         -> 145
      [] t = "CreateCharacterClassic"  -> 0
      [] t = "CreateCharacterEnhanced" -> 248
      [] t = "DeleteCharacter"         -> 131
      [] t = "SelectCharacter"         -> 93
      [] t = "LegacySeed"              -> 0

\* T::fixed_length(client_version).
\* Older client revisions use a shorter layout for some types.
FixedLength(t, v) ==
    CASE t = "Seed"                    -> Some(2)
      [] t = "AccountLogin"            -> Some(3)
      [] t = "ServerList"              -> None
      [] t = "SelectGameServer"        -> Some(2)
      [] t = "CharacterList"           -> None
      [] t = "GameServerLogin"         -> Some(3)
      [] t = "CreateCharacterClassic"  -> IF v = 1 THEN Some(1) ELSE Some(2)
      [] t = "CreateCharacterEnhanced" -> Some(3)
      [] t = "DeleteCharacter"         -> Some(2)
      [] t = "SelectCharacter"         -> Some(2)
      [] t = "LegacySeed"              -> Some(5)

\* PacketRegistration::for_type::<T>(): the operations of T behind one record.
ForType_KindZero(t) == [packet_kind |-> 0, type |-> t]
ForType(t) == [packet_kind |-> PacketKind(t), type |-> t]

(***************************************************************************)
(* packet_registry(): a table of 0x100 slots, all None, then one pass over *)
(* the registration list storing each registration at its kind.            *)
(***************************************************************************)
RECURSIVE BuildRegistrations(_, _)
BuildRegistrations(registrations, i) ==
    IF i > Len(RegistrationList) THEN registrations
    ELSE LET registration == ForType(RegistrationList[i])
             index == registration.packet_kind
         IN  BuildRegistrations([registrations EXCEPT ![index] = Some(registration)],
                                i + 1)

packet_registry == BuildRegistrations([k \in 0..255 |-> None], 1)

(***************************************************************************)
(* byteorder::BigEndian.  A u32 does not fit the checker's integers, so it *)
(* is kept as its two 16-bit halves [hi, lo].                              *)
(***************************************************************************)
read_u16(b) == b[1] * 256 + b[2]
write_u16(n) == << (n \div 256) % 256, n % 256 >>
read_u32(b) == [hi |-> b[1] * 256 + b[2], lo |-> b[3] * 256 + b[4]]
write_u32_LittleEndian(seed) ==
    << seed.lo % 256, seed.lo \div 256, seed.hi % 256, seed.hi \div 256 >>
write_u32(seed) ==
    << seed.hi \div 256, seed.hi % 256, seed.lo \div 256, seed.lo % 256 >>

\* `n as u16`
AsU16(n) == n % 65536

\* the first n elements of s, and s without them
Take(s, n) == SubSeq(s, 1, n)
Drop(s, n) == SubSeq(s, n + 1, Len(s))

(***************************************************************************)
(* The Reader's Vec<u8>.  A length field of two arbitrary bytes resizes it *)
(* to tens of thousands of bytes, nearly all of them the zeros resize      *)
(* filled in, so the vector is kept as the bytes up to its last non-zero   *)
(* byte and the count `pad' of zero bytes after them.                      *)
(***************************************************************************)
RECURSIVE StripZeros(_)
StripZeros(s) ==
    IF s # << >> /\ s[Len(s)] = 0 THEN StripZeros(Take(s, Len(s) - 1)) ELSE s

\* the vector holding the bytes of s
VecOf(s) == [bytes |-> StripZeros(s), pad |-> Len(s) - Len(StripZeros(s))]
\* Vec::len
VecLen(vec) == Len(vec.bytes) + vec.pad
\* the bytes the vector holds
VecBytes(vec) == vec.bytes \o [i \in 1..vec.pad |-> 0]
\* Vec::resize(new_len, 0)
Resize_GrowOnly(vec, new_len) ==
    IF new_len <= VecLen(vec) THEN vec
    ELSE [bytes |-> vec.bytes, pad |-> new_len - Len(vec.bytes)]
Resize(vec, new_len) ==
    IF new_len <= Len(vec.bytes) THEN VecOf(Take(vec.bytes, new_len))
    ELSE [bytes |-> vec.bytes, pad |-> new_len - Len(vec.bytes)]
\* the vector after a read_exact into the whole of it (mod.rs:232) that found
\* the bytes `got', no more than the vector holds, and wrote them over its
\* start
PartlyRead(vec, got) ==
    LET kept == Drop(vec.bytes, Len(got))
        bytes == StripZeros(got \o kept)
    IN  [bytes |-> bytes, pad |-> VecLen(vec) - Len(bytes)]

(***************************************************************************)
(* State.                                                                  *)
(***************************************************************************)
VARIABLES
    \* the connection
    inbound,          \* bytes the network has handed to the Reader's stream
    outbound,         \* bytes the Writer's stream has handed to the network
    closed,           \* the connection was closed or reset
    \* struct Reader
    r_is_server,      \* the role new_io built the Reader with
    r_has_received,   \* Reader::has_received
    r_buffer,         \* Reader::buffer
    r_pos,            \* bytes of inbound the Reader's stream has given out
    r_result,         \* what the last receive returned
    r_count,          \* receive calls completed
    r_seeds,          \* receive calls that returned a legacy seed
    \* struct Writer
    w_is_server,      \* the role new_io built the Writer with
    w_has_sent,       \* Writer::has_sent
    w_buffer,         \* Writer::buffer
    w_writer,         \* bytes held back inside the BufWriter
    w_result,         \* what the last send returned
    w_calls,          \* calls made on the Writer
    w_log,            \* for each call that returned Ok, what it put on the stream
    \* a broadcast: one AnyPacket handed to the Writers of several connections
    b_packet,         \* the shared AnyPacket
    b_writers,        \* for each recipient, its Writer and its stream
    b_encodes,        \* runs of the packet's encode so far
    \* AnyPacket containers and the values they wrap
    any_packets,      \* the containers made so far, in order of creation
    any_result,       \* what the last operation on a container returned
    \* static PACKET_REGISTRY and the threads calling packet_registry()
    PACKET_REGISTRY,  \* the OnceCell: None until a build has stored its table
    type_sizes,       \* size_of::<T>() of the registered types
    callers,          \* for each thread, where its packet_registry() call is
    builds,           \* runs of the initializer closure so far
    \* struct Twofish and the block handed to encrypt
    twofish,          \* the fields s, k and start
    block,            \* the 16-byte buffer encrypt works on
    tf_call,          \* the last call made on the cipher
    \* the two halves of one connection, used side by side
    e_reads,          \* the receive calls made so far, with what they returned
    e_writes,         \* the calls made on the Writer so far, likewise
    \* one call of send_update
    u_clients,        \* the clients the iterator yields, in its order
    u_call,           \* the locals of the call and where it is
    \* one entity of the world and the systems that keep its cached states
    ecs_entity,       \* the entity's components and its cached states
    ecs_dirty,        \* for each system, the components changed since it ran
    ecs_client,       \* the one synchronized client: its CanSee and HasSeen
    ecs_run,          \* the last run of a system and what it did
    ecs_mutations,    \* changes the game logic has made to the entity
    \* what clients can see and have seen, and the removal of entities
    vis_clients,      \* for each client CanSee, HasSeen, and Changed<CanSee>
    vis_lookup,       \* the entities NetEntityLookup::ecs_to_net has an id for
    vis_removals,     \* RemovedComponents<NetEntity> not yet read
    vis_run           \* the last run of a system and what it found

conn_vars == << inbound, outbound, closed >>
reader_vars == << r_is_server, r_has_received, r_buffer, r_pos, r_result,
                  r_count, r_seeds >>
writer_vars == << w_is_server, w_has_sent, w_buffer, w_writer, w_result,
                  w_calls, w_log >>
core_vars == << conn_vars, reader_vars, writer_vars >>
bcast_vars == << b_packet, b_writers, b_encodes >>
any_vars == << any_packets, any_result >>
registry_vars == << PACKET_REGISTRY, type_sizes, callers, builds >>
twofish_vars == << twofish, block, tf_call >>
end_vars == << e_reads, e_writes >>
send_update_vars == << u_clients, u_call >>
world_vars == << ecs_entity, ecs_dirty, ecs_client, ecs_run, ecs_mutations >>
seen_vars == << vis_clients, vis_lookup, vis_removals, vis_run >>
update_vars == << send_update_vars, world_vars, seen_vars >>
vars == << core_vars, bcast_vars, any_vars, registry_vars, twofish_vars,
           end_vars, update_vars >>

\* Each specification below is about one part of the core; the variables of
\* the parts it leaves out stay as these predicates set them.
NoBroadcast == b_packet = << >> /\ b_writers = << >> /\ b_encodes = 0
NoAnyPackets == any_packets = << >> /\ any_result = << >>
NoRegistry ==
    /\ PACKET_REGISTRY = << >>
    /\ type_sizes = << >>
    /\ callers = << >>
    /\ builds = 0
NoTwofish == twofish = << >> /\ block = << >> /\ tf_call = << >>
NoEnd == e_reads = << >> /\ e_writes = << >>
NoWorld ==
    /\ ecs_entity = << >> /\ ecs_dirty = << >> /\ ecs_client = << >>
    /\ ecs_run = << >> /\ ecs_mutations = 0
NoSeen ==
    /\ vis_clients = << >> /\ vis_lookup = {} /\ vis_removals = {}
    /\ vis_run = << >>
NoUpdate == u_clients = << >> /\ u_call = << >> /\ NoWorld /\ NoSeen
\* the variables a specification of Reader and Writer leaves alone
beyond_io == << bcast_vars, any_vars, registry_vars, twofish_vars,
               end_vars, update_vars >>
OnlyIo ==
    NoBroadcast /\ NoAnyPackets /\ NoRegistry /\ NoTwofish /\ NoEnd /\ NoUpdate

(***************************************************************************)
(* Reader::receive (mod.rs:193-237).                                       *)
(*                                                                         *)
(* ReceiveStep runs one call to completion on `avail', the bytes the       *)
(* stream can still give out.  Each read of the stream either finds its    *)
(* bytes, or fails with an I/O error when the stream has ended, or keeps   *)
(* the call waiting (blocked): a waiting call has not returned, and the    *)
(* model takes the call as one step once it can return.                    *)
(* decode_ok is the verdict of the packet type's decode on the payload.    *)
(* A panic is reported as status "panic".                                  *)
(***************************************************************************)
NoPacket == [type |-> "", kind |-> 0, payload |-> << >>, seed |-> None]

\* `if self.has_received { self.has_received = false; ... }` (mod.rs:195-196):
\* the flag after the call
HasReceivedAfter_Kept(has_received) == has_received
HasReceivedAfter(has_received) == FALSE

\* `if first_byte != 0xef` (mod.rs:203)
IsLegacyAddress_Any(first_byte) == TRUE
IsLegacyAddress(first_byte) == first_byte # 239

\* registry.registrations[packet_kind as usize].as_ref() (mod.rs:216)
Lookup_AlwaysFound(packet_kind) ==
    IF IsSome(packet_registry[packet_kind]) THEN packet_registry[packet_kind]
    ELSE Some(ForType("Seed"))
Lookup(packet_kind) == packet_registry[packet_kind]

\* the payload length (mod.rs:223-227), for a total_length of 3 or more
PayloadLength_KindCounted(fixed_length, total_length) ==
    IF IsSome(fixed_length) THEN Unwrap(fixed_length) - 1 ELSE total_length - 3
PayloadLength(fixed_length, total_length) ==
    IF IsSome(fixed_length) THEN Unwrap(fixed_length) ELSE total_length - 3

\* AnyPacket::from_packet(LegacySeed { seed })
LegacySeedPacket(seed) ==
    [type |-> "LegacySeed", kind |-> PacketKind("LegacySeed"),
     payload |-> << >>, seed |-> Some(seed)]

\* (registration.decode)(client_version, payload), when it succeeds
DecodedPacket(registration, payload) ==
    [type |-> registration.type, kind |-> registration.packet_kind,
     payload |-> payload, seed |-> None]

\* the outcome of a read that wants `want' bytes but finds fewer
ShortRead(has_received, buffer, avail, eof) ==
    [blocked |-> ~eof, status |-> "io_error", has_received |-> has_received,
     buffer |-> buffer, consumed |-> Len(avail), framed |-> FALSE,
     length |-> 0, packet |-> NoPacket]

ReceiveStep(has_received, buffer, avail, eof, client_version, decode_ok) ==
    LET after == HasReceivedAfter(has_received)
        Done(status, buf, consumed, framed, length, packet) ==
            [blocked |-> FALSE, status |-> status, has_received |-> after,
             buffer |-> buf, consumed |-> consumed, framed |-> framed,
             length |-> length, packet |-> packet]
        \* lines 215-236, entered with the kind byte already read
        Framed(packet_kind) ==
            LET slot == Lookup(packet_kind) IN
            IF ~IsSome(slot)
            THEN Done("unknown_kind", buffer, 1, TRUE, 0, NoPacket)
            ELSE
            LET registration == Unwrap(slot)
                fixed_length == FixedLength(registration.type, client_version)
                header == IF IsSome(fixed_length) THEN 1 ELSE 3
            IN
            IF ~IsSome(fixed_length) /\ Len(avail) < 3
            THEN [ShortRead(after, buffer, avail, eof) EXCEPT !.framed = TRUE]
            ELSE
            LET total_length == read_u16(SubSeq(avail, 2, 3)) IN
            IF ~IsSome(fixed_length) /\ total_length < 3
            THEN \* `as usize - 3` overflows: a panic at the subtraction when
                 \* overflow checks are on, otherwise the wrapped length is
                 \* beyond what Vec::resize can allocate and resize panics
                 Done("panic", buffer, 3, TRUE, 0, NoPacket)
            ELSE
            LET length == PayloadLength(fixed_length, total_length)
                resized == Resize(buffer, length)
                body == Drop(avail, header)
                \* read_exact asks for as many bytes as the vector holds
                want == VecLen(resized)
            IN
            IF Len(body) < want
            THEN [ShortRead(after, PartlyRead(resized, body), avail, eof)
                    EXCEPT !.framed = TRUE]
            ELSE
            \* decode is handed the vector as read_exact left it
            LET filled == PartlyRead(resized, Take(body, want))
                payload == VecBytes(filled)
            IN
            IF decode_ok
            THEN Done("ok", VecOf(<< >>), header + want, TRUE, length,
                      DecodedPacket(registration, payload))
            ELSE Done("decode_error", filled, header + want,
                      TRUE, length, NoPacket)
    IN
    IF Len(avail) = 0 THEN ShortRead(after, buffer, avail, eof)
    ELSE
    LET first_byte == avail[1] IN
    IF has_received /\ IsLegacyAddress(first_byte)
    THEN IF Len(avail) < 4 THEN ShortRead(after, buffer, avail, eof)
         ELSE Done("ok", buffer, 4, FALSE, 0,
                   LegacySeedPacket(read_u32(Take(avail, 4))))
    ELSE Framed(first_byte)

NoResult ==
    [status |-> "none", start |-> 0, consumed |-> 0, version |-> 0,
     framed |-> FALSE, length |-> 0, packet |-> NoPacket,
     found |-> VecOf(<< >>)]

\* One call of receive(client_version) that returns.
Receive(client_version, decode_ok) ==
    LET avail == Drop(inbound, r_pos)
        step == ReceiveStep(r_has_received, r_buffer, avail, closed,
                            client_version, decode_ok)
    IN  /\ r_result.status # "panic"
        /\ r_count < MaxReceives
        /\ ~step.blocked
        /\ r_has_received' = step.has_received
        /\ r_buffer' = step.buffer
        /\ r_pos' = r_pos + step.consumed
        /\ r_result' = [status |-> step.status, start |-> r_pos,
                        consumed |-> step.consumed, version |-> client_version,
                        framed |-> step.framed, length |-> step.length,
                        packet |-> step.packet, found |-> r_buffer]
        /\ r_count' = r_count + 1
        /\ r_seeds' = r_seeds + (IF IsSome(step.packet.seed) THEN 1 ELSE 0)
        /\ UNCHANGED << r_is_server, conn_vars, writer_vars >>

(***************************************************************************)
(* The Writer's stream: tokio's BufWriter over the write half.             *)
(* write_all copies into the BufWriter unless the bytes do not fit, flush  *)
(* hands everything held back to the network.  Once the connection is      *)
(* closed every write to the network fails.                                *)
(***************************************************************************)
\* tokio::io::BufWriter default capacity
BufWriterCapacity == 8192

\* BufWriter::flush_buf
FlushBuf(held, out, broken) ==
    IF held = << >> THEN [ok |-> TRUE, held |-> held, out |-> out]
    ELSE IF broken THEN [ok |-> FALSE, held |-> held, out |-> out]
    ELSE [ok |-> TRUE, held |-> << >>, out |-> out \o held]

\* self.writer.write_all(&mut buf)
WriteAll(held, out, broken, buf) ==
    LET first == IF Len(held) + Len(buf) > BufWriterCapacity
                 THEN FlushBuf(held, out, broken)
                 ELSE [ok |-> TRUE, held |-> held, out |-> out]
    IN  IF ~first.ok THEN first
        ELSE IF Len(buf) >= BufWriterCapacity
        THEN IF broken THEN [first EXCEPT !.ok = FALSE]
             ELSE [first EXCEPT !.out = first.out \o buf]
        ELSE [first EXCEPT !.held = first.held \o buf]

\* self.writer.flush()
Flush_Skipped(held, out, broken) == [ok |-> TRUE, held |-> held, out |-> out]
Flush(held, out, broken) == FlushBuf(held, out, broken)

(***************************************************************************)
(* Writer (mod.rs:240-306).  Each step operator runs one call from the     *)
(* Writer's fields (buffer, and the stream as held/out/broken) and gives   *)
(* the fields after the call, the status returned and `written', the bytes *)
(* the call passed to write_all.                                           *)
(* enc is what the packet's encode does at this version: the bytes it      *)
(* writes into the sink and whether it then returns Ok.                    *)
(***************************************************************************)
WriterOutcome(status, has_sent, buffer, stream, written) ==
    [status |-> status, has_sent |-> has_sent, buffer |-> buffer,
     held |-> stream.held, out |-> stream.out, written |-> written]

\* `if self.has_sent { return Err(..) }` (mod.rs:248-250)
SeedRefused_Never(has_sent) == FALSE
SeedRefused(has_sent) == has_sent

\* `self.has_sent = true` (mod.rs:251, 262, 284)
MarkSent_Forgotten(has_sent) == has_sent
MarkSent(has_sent) == TRUE

\* Writer::send_legacy_seed (mod.rs:247-258)
SendLegacySeedStep(has_sent, buffer, held, out, broken, seed) ==
    LET stream == [held |-> held, out |-> out] IN
    IF SeedRefused(has_sent)
    THEN WriterOutcome("usage_error", has_sent, buffer, stream, << >>)
    ELSE
    LET sent == MarkSent(has_sent)
        addr_bytes == write_u32(seed)
        wrote == WriteAll(held, out, broken, addr_bytes)
        flushed == Flush(wrote.held, wrote.out, broken)
    IN  IF ~wrote.ok THEN WriterOutcome("io_error", sent, buffer, wrote, << >>)
        ELSE IF ~flushed.ok
        THEN WriterOutcome("io_error", sent, buffer, flushed, addr_bytes)
        ELSE WriterOutcome("ok", sent, buffer, flushed, addr_bytes)

\* Endian::write_u16(&mut self.buffer[1..3], packet_len)
PatchLength(buffer, packet_len) ==
    [buffer EXCEPT ![2] = write_u16(packet_len)[1],
                   ![3] = write_u16(packet_len)[2]]

\* Writer::send::<T> (mod.rs:260-280)
SendStep(has_sent, buffer, held, out, broken, client_version, T, enc) ==
    LET sent == MarkSent(has_sent)
        stream == [held |-> held, out |-> out]
        fixed_length == FixedLength(T, client_version)
        encoded == IF IsSome(fixed_length)
                   THEN (buffer \o << PacketKind(T) >>) \o enc.bytes
                   ELSE (buffer \o << PacketKind(T), 0, 0 >>) \o enc.bytes
    IN
    IF ~enc.ok THEN WriterOutcome("encode_error", sent, encoded, stream, << >>)
    ELSE IF IsSome(fixed_length) /\ Unwrap(fixed_length) # Len(encoded)
    THEN WriterOutcome("panic", sent, encoded, stream, << >>)
    ELSE
    LET packet_len == AsU16(Len(encoded))
        framed == IF IsSome(fixed_length) THEN encoded
                  ELSE PatchLength(encoded, packet_len)
        wrote == WriteAll(held, out, broken, framed)
        flushed == Flush(wrote.held, wrote.out, broken)
    IN  IF ~wrote.ok THEN WriterOutcome("io_error", sent, framed, wrote, << >>)
        ELSE IF ~flushed.ok
        THEN WriterOutcome("io_error", sent, << >>, flushed, framed)
        ELSE WriterOutcome("ok", sent, << >>, flushed, framed)

\* AnyPacket::from_packet(packet) for a packet of type T, seen from outside
AnyPacketOf(T) == [type |-> T, kind |-> PacketKind(T)]

\* Writer::send_any (mod.rs:282-305): kind, fixed length and encode come
\* from the registration found under the packet's kind.
SendAnyStep(has_sent, buffer, held, out, broken, client_version, packet, enc) ==
    LET sent == MarkSent(has_sent)
        stream == [held |-> held, out |-> out]
        kind == packet.kind
        slot == packet_registry[kind]
    IN
    IF ~IsSome(slot)
    THEN \* AnyPacket::registration unwraps an empty slot
         WriterOutcome("panic", sent, buffer, stream, << >>)
    ELSE
    LET registration == Unwrap(slot)
        fixed_length == FixedLength(registration.type, client_version)
        encoded == IF IsSome(fixed_length)
                   THEN (buffer \o << kind >>) \o enc.bytes
                   ELSE (buffer \o << kind, 0, 0 >>) \o enc.bytes
    IN
    IF ~enc.ok THEN WriterOutcome("encode_error", sent, encoded, stream, << >>)
    ELSE IF IsSome(fixed_length) /\ Unwrap(fixed_length) # Len(encoded)
    THEN WriterOutcome("panic", sent, encoded, stream, << >>)
    ELSE
    LET packet_len == AsU16(Len(encoded))
        framed == IF IsSome(fixed_length) THEN encoded
                  ELSE PatchLength(encoded, packet_len)
        wrote == WriteAll(held, out, broken, framed)
        flushed == Flush(wrote.held, wrote.out, broken)
    IN  IF ~wrote.ok THEN WriterOutcome("io_error", sent, framed, wrote, << >>)
        ELSE IF ~flushed.ok
        THEN WriterOutcome("io_error", sent, << >>, flushed, framed)
        ELSE WriterOutcome("ok", sent, << >>, flushed, framed)

(***************************************************************************)
(* Inputs of the calls.                                                    *)
(***************************************************************************)
\* bytes an encoder writes
EncBytes == {0, 239}
\* packet types the callers send
SendTypes == {"Seed", "ServerList", "CreateCharacterClassic"}
\* seeds passed to send_legacy_seed
Seeds == {[hi |-> 0, lo |-> 1], [hi |-> 61184, lo |-> 4]}

RECURSIVE SeqsUpTo(_, _)
SeqsUpTo(S, n) ==
    IF n = 0 THEN {<< >>}
    ELSE LET shorter == SeqsUpTo(S, n - 1)
         IN  shorter \cup {Append(q, x) : q \in shorter, x \in S}

EncodeOutcomes == [ok : BOOLEAN, bytes : SeqsUpTo(EncBytes, MaxBody)]

NoCall ==
    [status |-> "none", op |-> "", version |-> 0, type |-> "",
     enc_ok |-> TRUE, enc_len |-> 0, written |-> << >>]

\* The Writer's fields after a call, and the record kept of the call.
WriterCall(op, client_version, T, enc, step, limit) ==
    /\ w_result.status # "panic"
    /\ w_calls < MaxCalls
    /\ Len(step.out) + Len(step.held) + Len(step.buffer) <= limit
    /\ w_has_sent' = step.has_sent
    /\ w_buffer' = step.buffer
    /\ w_writer' = step.held
    /\ outbound' = step.out
    /\ w_result' = [status |-> step.status, op |-> op,
                    version |-> client_version, type |-> T,
                    enc_ok |-> enc.ok, enc_len |-> Len(enc.bytes),
                    written |-> step.written]
    /\ w_calls' = w_calls + 1
    /\ w_log' = IF step.status = "ok"
                THEN Append(w_log, [legacy |-> (op = "send_legacy_seed"),
                                    type |-> T, version |-> client_version,
                                    start |-> Len(outbound),
                                    length |-> Len(step.written)])
                ELSE w_log
    /\ UNCHANGED w_is_server

WriterSendLegacySeed(seed) ==
    WriterCall("send_legacy_seed", 0, "LegacySeed",
               [ok |-> TRUE, bytes |-> write_u32(seed)],
               SendLegacySeedStep(w_has_sent, w_buffer, w_writer, outbound,
                                  closed, seed),
               MaxWire)

WriterSend(client_version, T, enc, limit) ==
    WriterCall("send", client_version, T, enc,
               SendStep(w_has_sent, w_buffer, w_writer, outbound, closed,
                        client_version, T, enc),
               limit)

WriterSendAny(client_version, T, enc, limit) ==
    WriterCall("send_any", client_version, T, enc,
               SendAnyStep(w_has_sent, w_buffer, w_writer, outbound, closed,
                           client_version, AnyPacketOf(T), enc),
               limit)

(***************************************************************************)
(* Spec: the Writer of one end feeds the Reader of the other end.  What    *)
(* the Writer's stream hands to the network is at once on the Reader's     *)
(* stream: a receive waits for its bytes, so its result depends on the     *)
(* bytes and on where the stream ends, not on when the bytes arrive.       *)
(***************************************************************************)
\* `has_received: is_server` (mod.rs:313)
ReaderHasReceived_Always(is_server) == TRUE
ReaderHasReceived(is_server) == is_server

\* `has_sent: is_server` (mod.rs:317)
WriterHasSent_Client(is_server) == ~is_server
WriterHasSent(is_server) == is_server

\* new_io(stream, is_server) (mod.rs:308-319): the fields of the Reader and
\* of the Writer it builds, here for a Reader built with reader_role and a
\* Writer built with writer_role.
new_io_fields(reader_role, writer_role) ==
    /\ r_is_server = reader_role
    /\ r_has_received = ReaderHasReceived(reader_role)
    /\ r_buffer = VecOf(<< >>)
    /\ r_pos = 0
    /\ r_result = NoResult
    /\ r_count = 0
    /\ r_seeds = 0
    /\ w_is_server = writer_role
    /\ w_has_sent = WriterHasSent(writer_role)
    /\ w_buffer = << >>
    /\ w_writer = << >>
    /\ w_result = NoCall
    /\ w_calls = 0
    /\ w_log = << >>

\* the same on a connection that has carried nothing yet
new_io(reader_role, writer_role) ==
    /\ inbound = << >>
    /\ outbound = << >>
    /\ closed = FALSE
    /\ new_io_fields(reader_role, writer_role)

\* The two ends of a connection: one is the server, the other the client.
\* The Reader is the one of the end opposite to the Writer's.
Init == OnlyIo /\ \E is_server \in BOOLEAN : new_io(is_server, ~is_server)

\* The Reader and the Writer of one end.
InitEnd == OnlyIo /\ \E is_server \in BOOLEAN : new_io(is_server, is_server)

Linked == inbound' = outbound' /\ UNCHANGED << closed, reader_vars, beyond_io >>

SendLegacySeed == \E seed \in Seeds : WriterSendLegacySeed(seed) /\ Linked

Send ==
    \E v \in Versions, T \in SendTypes, enc \in EncodeOutcomes :
        WriterSend(v, T, enc, MaxWire) /\ Linked

SendAny ==
    \E v \in Versions, T \in SendTypes, enc \in EncodeOutcomes :
        WriterSendAny(v, T, enc, MaxWire) /\ Linked

ReaderReceive ==
    \E v \in Versions, decode_ok \in BOOLEAN :
        Receive(v, decode_ok) /\ UNCHANGED beyond_io

\* the connection is closed or reset
Close ==
    /\ ~closed
    /\ closed' = TRUE
    /\ UNCHANGED << inbound, outbound, reader_vars, writer_vars, beyond_io >>

Next == SendLegacySeed \/ Send \/ SendAny \/ ReaderReceive \/ Close

Spec == Init /\ [][Next]_vars

(***************************************************************************)
(* SpecRaw: the Reader fed by a peer that writes what bytes it likes.      *)
(***************************************************************************)
\* bytes the peer writes: 0 (a fixed-length kind, and the bytes of a length
\* field below 3), 4 (no registered kind; the length field of a one-byte
\* body), 168 (a variable-length kind) and 239 (0xEF)
PeerBytes == {0, 4, 168, 239}

PeerWrite ==
    \E b \in PeerBytes :
        /\ ~closed
        /\ Len(inbound) < MaxPeerBytes
        /\ inbound' = Append(inbound, b)
        /\ UNCHANGED << outbound, closed, reader_vars, writer_vars, beyond_io >>

NextRaw == PeerWrite \/ ReaderReceive \/ Close

SpecRaw == InitEnd /\ [][NextRaw]_vars

(***************************************************************************)
(* SpecWriter: the Writer on its own, whoever reads the other end.         *)
(***************************************************************************)
Alone == UNCHANGED << inbound, closed, reader_vars, beyond_io >>

CallSendLegacySeed == \E seed \in Seeds : WriterSendLegacySeed(seed) /\ Alone

CallSend ==
    \E v \in Versions, T \in SendTypes, enc \in EncodeOutcomes :
        WriterSend(v, T, enc, MaxWire) /\ Alone

CallSendAny ==
    \E v \in Versions, T \in SendTypes, enc \in EncodeOutcomes :
        WriterSendAny(v, T, enc, MaxWire) /\ Alone

NextWriter == CallSendLegacySeed \/ CallSend \/ CallSendAny \/ Close

SpecWriter == InitEnd /\ [][NextWriter]_vars

(***************************************************************************)
(* SpecBig: the Writer sending packets whose encoded body brings the       *)
(* packet to the edge of what a 16-bit length can say.                     *)
(***************************************************************************)
\* encoders writing between MaxBigWire - 8 and MaxBigWire - 3 zero bytes
BigEncodeOutcomes ==
    [ok : BOOLEAN,
     bytes : {[i \in 1..n |-> 0] : n \in (MaxBigWire - 8)..(MaxBigWire - 3)}]

CallSendBig ==
    \E v \in Versions, T \in SendTypes, enc \in BigEncodeOutcomes :
        WriterSend(v, T, enc, MaxBigWire) /\ Alone

CallSendAnyBig ==
    \E v \in Versions, T \in SendTypes, enc \in BigEncodeOutcomes :
        WriterSendAny(v, T, enc, MaxBigWire) /\ Alone

NextBig == CallSendBig \/ CallSendAnyBig

SpecBig == InitEnd /\ [][NextBig]_vars

(***************************************************************************)
(* Properties of the Reader, checked under SpecRaw.                        *)
(***************************************************************************)
\* the byte the last receive read first
LeadingByte == inbound[r_result.start + 1]
\* the last receive read at least its leading byte
ReadLeadingByte == r_count >= 1 /\ r_result.consumed >= 1
\* the last receive was the first receive of a Reader built as a server
FirstServerReceive == r_is_server /\ r_count = 1
\* the last receive followed normal framing: its leading byte was looked up
\* in the registry as a packet kind
NormalFraming ==
    /\ r_result.framed
    /\ ~IsSome(r_result.packet.seed)
    /\ r_result.status = "unknown_kind" <=> ~IsSome(packet_registry[LeadingByte])
    /\ r_result.status = "ok" =>
          /\ r_result.packet.kind = LeadingByte
          /\ r_result.packet.type = Unwrap(packet_registry[LeadingByte]).type

\* C1: on a Reader built with the server role whose stream starts with four
\* bytes the first of which is not 0xEF, the first receive returns a legacy
\* seed whose value is the big-endian reading of those four bytes; it is the
\* only legacy seed the Reader ever returns, and every later receive follows
\* normal framing.
C1_LegacySeedOnce ==
    (r_is_server /\ r_count >= 1 /\ Len(inbound) >= 4 /\ inbound[1] # 239) =>
        /\ r_seeds = 1
        /\ r_count = 1 =>
              /\ r_result.status = "ok"
              /\ r_result.start = 0 /\ r_result.consumed = 4
              /\ r_result.packet.type = "LegacySeed"
              /\ r_result.packet.seed =
                    Some([hi |-> inbound[1] * 256 + inbound[2],
                          lo |-> inbound[3] * 256 + inbound[4]])
              /\ ~r_has_received
        /\ r_count > 1 => (r_result.consumed >= 1 => NormalFraming)

\* a legacy seed was returned and a later receive returned a framed packet
C1_Witness ==
    /\ r_is_server /\ Len(inbound) >= 4 /\ inbound[1] # 239
    /\ r_count >= 2 /\ r_seeds = 1
    /\ r_result.status = "ok" /\ r_result.start >= 4

\* C2 as stated: whenever a receive reads a leading byte that has no entry in
\* the registry, it returns the unknown-packet-kind failure -- the first
\* receive of a server-role Reader included.
C2_UnknownKindAlways ==
    (ReadLeadingByte /\ ~IsSome(packet_registry[LeadingByte])) =>
        r_result.status = "unknown_kind"

\* C2 amended: every receive other than the first receive of a server-role
\* Reader that reads a leading byte with no entry in the registry returns the
\* unknown-packet-kind failure (an error value: no panic, no packet) having
\* read that one byte; the first receive of a server-role Reader takes such
\* a byte as the start of a legacy seed and never reports an unknown kind
\* for it.
C2_UnknownKindWhenFramed ==
    (ReadLeadingByte /\ ~IsSome(packet_registry[LeadingByte])) =>
        IF FirstServerReceive
        THEN r_result.status # "unknown_kind" /\ ~r_result.framed
        ELSE /\ r_result.status = "unknown_kind"
             /\ r_result.consumed = 1
             /\ r_result.packet = NoPacket

\* a later receive of a server-role Reader met an unregistered kind
C2_Witness ==
    /\ r_is_server /\ r_count >= 2
    /\ ReadLeadingByte /\ ~IsSome(packet_registry[LeadingByte])
    /\ r_result.status = "unknown_kind"

\* C4: a successful receive in the Framed state has consumed 1 + n bytes and
\* decoded the n bytes after the kind when the kind's registration reports
\* fixed_length = Some(n) at the call's version, and has consumed total_length
\* bytes and decoded the total_length - 3 bytes after the length field when
\* it reports None.
C4_BytesConsumed ==
    (r_result.status = "ok" /\ r_result.framed) =>
        LET start == r_result.start
            registration == Unwrap(packet_registry[LeadingByte])
            fixed_length == FixedLength(registration.type, r_result.version)
            total_length == inbound[start + 2] * 256 + inbound[start + 3]
        IN  /\ IsSome(packet_registry[LeadingByte])
            /\ r_pos = start + r_result.consumed
            /\ IF IsSome(fixed_length)
               THEN /\ r_result.consumed = 1 + Unwrap(fixed_length)
                    /\ r_result.length = Unwrap(fixed_length)
                    /\ r_result.packet.payload =
                          SubSeq(inbound, start + 2, start + 1 + Unwrap(fixed_length))
               ELSE /\ r_result.consumed = total_length
                    /\ r_result.length = total_length - 3
                    /\ r_result.packet.payload =
                          SubSeq(inbound, start + 4, start + total_length)

\* a variable-length packet with a body was received after a fixed-length one
C4_Witness ==
    /\ r_result.status = "ok" /\ r_result.framed
    /\ r_result.start >= 2
    /\ ~IsSome(FixedLength(r_result.packet.type, r_result.version))
    /\ Len(r_result.packet.payload) >= 1

\* C7 as stated: a receive that reads a variable-length packet whose
\* total_length field is below 3 returns an error to the caller; it does not
\* panic.
C7_ShortLengthIsError ==
    (/\ r_count >= 1 /\ r_result.framed /\ r_result.consumed >= 3
     /\ IsSome(packet_registry[LeadingByte])
     /\ ~IsSome(FixedLength(Unwrap(packet_registry[LeadingByte]).type,
                            r_result.version))
     /\ inbound[r_result.start + 2] * 256 + inbound[r_result.start + 3] < 3)
        => r_result.status \in {"io_error", "decode_error", "length_error"}

\* C21: a Reader built with the client role never takes the leading byte of
\* a receive for the start of a legacy address and never returns a legacy
\* seed, whatever the byte is: each of its receives that reads a byte looks
\* it up as a packet kind.  Only a Reader built with the server role awaits
\* the legacy hello, and only until its first receive.
C21_ClientReaderFramed ==
    /\ ~r_is_server =>
          /\ ~r_has_received
          /\ r_seeds = 0
          /\ ReadLeadingByte => NormalFraming
    /\ r_has_received => (r_is_server /\ r_count = 0)
    /\ r_count = 0 => (r_has_received <=> r_is_server)

\* the first receive of a client-role Reader found four bytes whose first is
\* neither 0xEF nor a registered kind, and reported the unknown kind
C21_Witness ==
    /\ ~r_is_server /\ r_count = 1
    /\ Len(inbound) >= 4 /\ inbound[1] = 4
    /\ r_result.status = "unknown_kind" /\ r_result.consumed = 1

\* C28: the payload a receive hands to decode is the bytes it read from the
\* stream for this packet, as many as the fixed length or the length field
\* says, and nothing else, whatever an earlier receive that failed in its
\* read or its decode left in the buffer: a packet that was decoded holds
\* exactly those bytes, a decode that failed was given exactly those bytes,
\* and after a packet is returned the buffer is empty.
C28_PayloadIsOwnBytes ==
    (r_result.status \in {"ok", "decode_error"} /\ r_result.framed) =>
        LET start == r_result.start
            fixed_length == FixedLength(Unwrap(packet_registry[LeadingByte]).type,
                                        r_result.version)
            header == IF IsSome(fixed_length) THEN 1 ELSE 3
            length == IF IsSome(fixed_length) THEN Unwrap(fixed_length)
                      ELSE inbound[start + 2] * 256 + inbound[start + 3] - 3
            own == SubSeq(inbound, start + header + 1, start + header + length)
        IN  /\ r_result.consumed = header + length
            /\ IF r_result.status = "ok"
               THEN r_result.packet.payload = own /\ r_buffer = VecOf(<< >>)
               ELSE VecBytes(r_buffer) = own

\* a receive decoded a packet with a payload shorter than the bytes that the
\* receive before it, which failed, had left in the buffer
C28_Witness ==
    /\ r_result.status = "ok" /\ r_result.framed
    /\ r_result.length >= 1
    /\ VecLen(r_result.found) > r_result.length
    /\ r_result.found.bytes # << >>

\* C25: on a Reader built with the server role whose stream starts with
\* 0xEF, the first receive takes that byte as the kind of a framed packet:
\* it is looked up in the registry and the body is read by its fixed length
\* or its length field; neither that receive nor any later one returns a
\* legacy seed.
C25_FramedHello ==
    (r_is_server /\ r_count >= 1 /\ inbound # << >> /\ inbound[1] = 239) =>
        /\ r_seeds = 0
        /\ ~r_has_received
        /\ ReadLeadingByte => NormalFraming
        /\ r_count = 1 =>
              /\ r_result.start = 0 /\ r_result.framed
              /\ r_result.status \in {"ok", "decode_error", "io_error"}
              /\ r_result.status # "io_error" =>
                    r_result.consumed = 1 + Unwrap(FixedLength("Seed", r_result.version))
              /\ r_result.status = "ok" =>
                    /\ r_result.packet.type = "Seed"
                    /\ r_result.packet.payload = SubSeq(inbound, 2, r_result.consumed)

\* the framed hello of a server-role Reader was decoded, and a later receive
\* read a leading byte other than 0xEF
C25_Witness ==
    /\ r_is_server /\ inbound # << >> /\ inbound[1] = 239
    /\ r_count >= 2 /\ r_seeds = 0
    /\ r_result.start >= 3 /\ ReadLeadingByte /\ LeadingByte # 239
    /\ r_result.status = "ok"

\* C26 as stated: once a receive has failed with the unknown-packet-kind
\* failure, the next receive on the same Reader fails too: no packet is
\* decoded from the bytes that follow the unknown kind byte.
C26_UnknownKindIsFatal ==
    [][ (r_result.status = "unknown_kind" /\ r_count' = r_count + 1)
            => r_result'.status # "ok" ]_vars

(***************************************************************************)
(* Properties of the Writer, checked under SpecWriter.                     *)
(***************************************************************************)
\* the last call was a send or send_any of a type with a fixed length whose
\* encode returned Ok
FixedSendEncoded ==
    /\ w_result.op \in {"send", "send_any"}
    /\ IsSome(FixedLength(w_result.type, w_result.version))
    /\ w_result.enc_ok

\* C5 as stated: for a type with fixed_length = Some(n), the size assertion
\* of send and send_any passes exactly when encode wrote n bytes.
C5_AssertCountsEncodedBytes ==
    FixedSendEncoded =>
        (w_result.status # "panic" <=>
            w_result.enc_len = Unwrap(FixedLength(w_result.type,
                                                  w_result.version)))

\* C6 as stated: the length field of every variable-length packet a send or
\* send_any has put on the stream says how many bytes the packet has: the
\* kind byte, the two bytes of the field and the bytes encode wrote.
C6_LengthFieldIsTotal ==
    (/\ w_result.op \in {"send", "send_any"} /\ w_result.status = "ok"
     /\ ~IsSome(FixedLength(w_result.type, w_result.version)))
        => read_u16(SubSeq(w_result.written, 2, 3)) = 3 + w_result.enc_len

\* the last call was send_legacy_seed
SeedCall == w_calls >= 1 /\ w_result.op = "send_legacy_seed"
\* the last call was not the first call on the Writer
AfterOtherCalls == w_calls >= 2
\* the frames of the log lie end to end on the stream and fill it
LogTilesOutbound ==
    /\ \A i \in 1..Len(w_log) :
          w_log[i].start = IF i = 1 THEN 0
                           ELSE w_log[i - 1].start + w_log[i - 1].length
    /\ Len(outbound) = IF w_log = << >> THEN 0
                       ELSE w_log[Len(w_log)].start + w_log[Len(w_log)].length

\* C8: send_legacy_seed returns Ok only as the first call on its Writer;
\* called after a send, a send_any or a send_legacy_seed it fails and leaves
\* the stream as it was; so the stream carries at most one legacy seed, and
\* that one as its first four bytes.
C8_SeedOnlyFirst ==
    [][ /\ (SeedCall' /\ w_result'.status = "ok") => w_calls' = 1
        /\ (SeedCall' /\ AfterOtherCalls' /\ w_calls' = w_calls + 1) =>
              /\ w_result'.status = "usage_error"
              /\ outbound' = outbound
              /\ w_writer' = w_writer
        /\ \A i \in 1..Len(w_log') :
              w_log'[i].legacy =>
                  /\ i = 1
                  /\ w_log'[i].start = 0 /\ w_log'[i].length = 4
                  /\ Len(outbound') >= 4 ]_vars

\* a legacy seed went out first and a later send_legacy_seed was refused
C8_Witness ==
    /\ SeedCall /\ AfterOtherCalls
    /\ w_result.status = "usage_error"
    /\ w_log # << >> /\ w_log[1].legacy
    /\ Len(outbound) >= 4

\* the legacy hello was sent by the first call and the last call is another
\* send_legacy_seed
SeedTwice ==
    /\ SeedCall /\ AfterOtherCalls
    /\ w_log # << >> /\ w_log[1].legacy

\* C9 as stated: sending the legacy hello a second time is a fatal failure:
\* the call does not return.
C9_SecondSeedIsFatal == SeedTwice => w_result.status = "panic"

\* C9 amended: sending the legacy hello a second time returns an error value
\* to the caller (the call returns, nothing is asserted) and writes nothing.
C9_SecondSeedIsError ==
    SeedTwice =>
        /\ w_result.status = "usage_error"
        /\ w_result.written = << >>
        /\ w_has_sent

\* the legacy hello was sent twice and the second call returned an error
C9_Witness == SeedTwice /\ w_result.status = "usage_error" /\ w_has_sent

FirstCallIsSeed == SeedCall /\ w_calls = 1

\* C22 as stated: send_legacy_seed on a freshly built Writer of the client
\* role is refused as a usage failure and writes nothing.
C22_ClientSeedRefused ==
    (FirstCallIsSeed /\ ~w_is_server) =>
        /\ w_result.status = "usage_error"
        /\ w_result.written = << >>
        /\ outbound = << >>

\* C22 amended: it is the Writer built with the server role that counts the
\* legacy hello as already sent: send_legacy_seed on a freshly built
\* server-role Writer is refused as a usage failure and writes nothing, and
\* on a freshly built client-role Writer it is accepted and, unless the
\* stream fails, puts the four bytes of the seed on the stream.
C22_ServerSeedRefused ==
    /\ w_calls = 0 => (w_has_sent <=> w_is_server)
    /\ (FirstCallIsSeed /\ w_is_server) =>
          /\ w_result.status = "usage_error"
          /\ w_result.written = << >>
          /\ outbound = << >> /\ w_writer = << >>
    /\ (FirstCallIsSeed /\ ~w_is_server) =>
          /\ w_result.status \in {"ok", "io_error"}
          /\ w_result.status = "ok" =>
                (Len(outbound) = 4 /\ outbound = w_result.written)

\* a fresh server-role Writer has refused the legacy seed
C22_Witness ==
    /\ FirstCallIsSeed /\ w_is_server
    /\ w_result.status = "usage_error" /\ outbound = << >>

\* C29 as stated: the Writer's buffer is empty whenever a send or send_any
\* can start, whatever the calls before it returned, and a send or send_any
\* that returned Ok has put on the stream the bytes of its own packet alone,
\* the packet's kind first.
C29_ScratchEmptyAtStart ==
    /\ w_result.status # "panic" => w_buffer = << >>
    /\ (w_result.status = "ok" /\ w_result.op \in {"send", "send_any"}) =>
          w_result.written[1] = PacketKind(w_result.type)

(***************************************************************************)
(* The legacy seed from Writer to Reader, checked under Spec.              *)
(***************************************************************************)
\* send_legacy_seed(seed) was the Writer's first call and returned Ok, and
\* the server-role Reader at the other end has made its first receive
SeedDelivered(seed) ==
    /\ Len(w_log) >= 1 /\ w_log[1].legacy
    /\ Len(outbound) >= 4 /\ SubSeq(outbound, 1, 4) = write_u32(seed)
    /\ r_is_server /\ r_count = 1

\* the receive returned a legacy seed of this value
ReceivedSeed(seed) ==
    /\ r_result.status = "ok"
    /\ r_result.start = 0 /\ r_result.consumed = 4
    /\ r_result.packet.type = "LegacySeed"
    /\ r_result.packet.seed = Some(seed)

\* C31 as stated: for every seed, those whose most significant byte is 0xEF
\* included, the four bytes send_legacy_seed wrote make the first receive of
\* a server-role Reader return a legacy seed of the same value.
C31_SeedRoundTrip ==
    \A seed \in Seeds : SeedDelivered(seed) => ReceivedSeed(seed)

\* C31 amended: for every seed whose most significant byte is not 0xEF, the
\* four bytes send_legacy_seed wrote make the first receive of a server-role
\* Reader return a legacy seed of the same value; a seed whose most
\* significant byte is 0xEF is read as the kind of a framed packet and no
\* legacy seed is returned.
C31_SeedRoundTripUnlessFramedTag ==
    \A seed \in Seeds :
        SeedDelivered(seed) =>
            IF seed.hi \div 256 # 239 THEN ReceivedSeed(seed)
            ELSE r_result.framed /\ ~IsSome(r_result.packet.seed)
                    /\ r_seeds = 0

\* a seed was sent and the first receive returned it
C31_Witness ==
    \E seed \in Seeds :
        SeedDelivered(seed) /\ seed.hi \div 256 # 239 /\ ReceivedSeed(seed)

(***************************************************************************)
(* Writer and Reader together, checked under Spec.                         *)
(***************************************************************************)
\* C3 as stated: a receive in the Framed state that starts where a send or
\* send_any at the same version put its packet consumes exactly the bytes
\* that call wrote and, when it decodes, yields the kind that was sent.
C3_WriterReaderAgree ==
    \A i \in 1..Len(w_log) :
        (/\ ~w_log[i].legacy
         /\ r_count >= 1 /\ r_result.framed
         /\ r_result.start = w_log[i].start
         /\ r_result.version = w_log[i].version
         /\ r_result.status \in {"ok", "decode_error"})
            => /\ r_result.consumed = w_log[i].length
               /\ r_result.status = "ok" =>
                     r_result.packet.kind = PacketKind(w_log[i].type)

(***************************************************************************)
(* SpecEnd: the Reader and the Writer that one new_io call builds, used    *)
(* side by side by two tasks, on a stream the peer has written its bytes   *)
(* to and that may close.  e_reads and e_writes keep, for each call, its   *)
(* arguments, what the stream could give or take when it ran, and what it  *)
(* returned.                                                               *)
(***************************************************************************)
\* most bytes the peer has written
MaxEndBytes == 4
\* most receive calls
MaxEndReceives == 2
\* most calls on the Writer
MaxEndCalls == 2

\* bytes the peer writes, and the version, types and encoders of the calls:
\* send is given a packet of variable length, send_any one of fixed length
EndPeerBytes == {0, 239}
EndVersions == {1}
EndSendTypes == {"ServerList"}
EndSendAnyTypes == {"CreateCharacterClassic"}
EndEncodes == {[ok |-> TRUE, bytes |-> << >>], [ok |-> FALSE, bytes |-> << 239 >>]}
EndSeed == [hi |-> 0, lo |-> 1]

\* the variables a specification of the two halves leaves alone
beyond_end == << bcast_vars, any_vars, registry_vars, twofish_vars, update_vars >>

InitHalves ==
    /\ NoBroadcast /\ NoAnyPackets /\ NoRegistry /\ NoTwofish /\ NoUpdate
    /\ \E is_server \in BOOLEAN :
          new_io_fields(is_server, is_server)
    /\ inbound \in SeqsUpTo(EndPeerBytes, MaxEndBytes)
    /\ outbound = << >>
    /\ closed = FALSE
    /\ e_reads = << >>
    /\ e_writes = << >>

\* calls made so far on either half
EndCalls == Len(e_reads) + Len(e_writes)

\* struct Writer (mod.rs:240-244) holds its own buffer and flag and the write
\* half of the stream, and its methods borrow the Writer alone: the Reader's
\* flag and buffer after a call on the Writer that left `buffer' in
\* Writer::buffer
ReaderAfterWriterCall_OneBuffer(has_received, r_buf, buffer) ==
    [has_received |-> has_received, buffer |-> VecOf(buffer)]
ReaderAfterWriterCall(has_received, r_buf, buffer) ==
    [has_received |-> has_received, buffer |-> r_buf]

ReceiveEnd ==
    \E v \in EndVersions, decode_ok \in BOOLEAN :
        /\ Len(e_reads) < MaxEndReceives
        /\ Receive(v, decode_ok)
        /\ e_reads' = Append(e_reads,
               [at |-> EndCalls + 1, version |-> v, decode_ok |-> decode_ok,
                seen |-> Len(inbound), eof |-> closed,
                status |-> r_result'.status, consumed |-> r_result'.consumed,
                packet |-> r_result'.packet])
        /\ UNCHANGED << e_writes, beyond_end >>

\* what a call on the Writer leaves of everything but the Writer
WriterCallEnd(op, v, T, enc, seed) ==
    /\ Len(e_writes) < MaxEndCalls
    /\ LET reader == ReaderAfterWriterCall(r_has_received, r_buffer, w_buffer')
       IN  /\ r_has_received' = reader.has_received
           /\ r_buffer' = reader.buffer
    /\ e_writes' = Append(e_writes,
           [at |-> EndCalls + 1, op |-> op, version |-> v, type |-> T,
            enc |-> enc, seed |-> seed, broken |-> closed,
            status |-> w_result'.status, written |-> w_result'.written])
    /\ UNCHANGED << inbound, closed, r_is_server, r_pos, r_result, r_count,
                    r_seeds, e_reads, beyond_end >>

SendLegacySeedEnd ==
    /\ WriterSendLegacySeed(EndSeed)
    /\ WriterCallEnd("send_legacy_seed", 0, "LegacySeed",
                     [ok |-> TRUE, bytes |-> << >>], EndSeed)

SendEnd ==
    \E v \in EndVersions, T \in EndSendTypes, enc \in EndEncodes :
        /\ WriterSend(v, T, enc, MaxWire)
        /\ WriterCallEnd("send", v, T, enc, EndSeed)

SendAnyEnd ==
    \E v \in EndVersions, T \in EndSendAnyTypes, enc \in EndEncodes :
        /\ WriterSendAny(v, T, enc, MaxWire)
        /\ WriterCallEnd("send_any", v, T, enc, EndSeed)

CloseEnd ==
    /\ ~closed
    /\ closed' = TRUE
    /\ UNCHANGED << inbound, outbound, reader_vars, writer_vars, end_vars,
                    beyond_end >>

NextEnd == ReceiveEnd \/ SendLegacySeedEnd \/ SendEnd \/ SendAnyEnd \/ CloseEnd

SpecEnd == InitHalves /\ [][NextEnd]_vars

\* The Reader on its own: the receive calls of `reads' made in their order
\* on a Reader as new_io built it, each with the bytes and the end of stream
\* its call met.  `same' says that every call so far returned what the log
\* says it returned.
RECURSIVE ReaderAlone(_, _, _)
ReaderAlone(reader, reads, i) ==
    IF i > Len(reads) THEN reader
    ELSE LET call == reads[i]
             step == ReceiveStep(reader.has_received, reader.buffer,
                                 Drop(Take(inbound, call.seen), reader.pos),
                                 call.eof, call.version, call.decode_ok)
         IN  ReaderAlone([has_received |-> step.has_received,
                          buffer |-> step.buffer,
                          pos |-> reader.pos + step.consumed,
                          same |-> /\ reader.same
                                   /\ ~step.blocked
                                   /\ step.status = call.status
                                   /\ step.consumed = call.consumed
                                   /\ step.packet = call.packet],
                         reads, i + 1)

\* The Writer on its own, likewise.
RECURSIVE WriterAlone(_, _, _)
WriterAlone(writer, writes, i) ==
    IF i > Len(writes) THEN writer
    ELSE LET call == writes[i]
             step ==
                 CASE call.op = "send_legacy_seed" ->
                        SendLegacySeedStep(writer.has_sent, writer.buffer,
                                           writer.held, writer.out, call.broken,
                                           call.seed)
                   [] call.op = "send" ->
                        SendStep(writer.has_sent, writer.buffer, writer.held,
                                 writer.out, call.broken, call.version,
                                 call.type, call.enc)
                   [] call.op = "send_any" ->
                        SendAnyStep(writer.has_sent, writer.buffer, writer.held,
                                    writer.out, call.broken, call.version,
                                    AnyPacketOf(call.type), call.enc)
         IN  WriterAlone([has_sent |-> step.has_sent, buffer |-> step.buffer,
                          held |-> step.held, out |-> step.out,
                          same |-> /\ writer.same
                                   /\ step.status = call.status
                                   /\ step.written = call.written],
                         writes, i + 1)

\* C23: the Reader and the Writer of one connection share no state that
\* either changes: however the receive calls and the calls on the Writer are
\* interleaved, every call returns what it returns when its half runs alone
\* on the same input, and each half ends with the fields it ends with alone;
\* so no receive changes the Writer's flag or buffer and no send changes the
\* Reader's.
C23_HalvesIndependent ==
    LET reader == ReaderAlone([has_received |-> ReaderHasReceived(r_is_server),
                               buffer |-> VecOf(<< >>), pos |-> 0,
                               same |-> TRUE], e_reads, 1)
        writer == WriterAlone([has_sent |-> WriterHasSent(w_is_server),
                               buffer |-> << >>, held |-> << >>,
                               out |-> << >>, same |-> TRUE], e_writes, 1)
    IN  /\ reader.same
        /\ reader.has_received = r_has_received
        /\ reader.buffer = r_buffer
        /\ reader.pos = r_pos
        /\ writer.same
        /\ writer.has_sent = w_has_sent
        /\ writer.buffer = w_buffer
        /\ writer.held = w_writer
        /\ writer.out = outbound

\* a send whose encode failed, leaving bytes in the Writer's buffer, ran
\* between two receives of which the second returned a packet, and a send
\* that reached the stream ran after them
C23_Witness ==
    /\ Len(e_reads) = 2 /\ Len(e_writes) = 2
    /\ e_reads[1].at < e_writes[1].at
    /\ e_writes[1].at < e_reads[2].at
    /\ e_reads[2].at < e_writes[2].at
    /\ e_writes[1].status = "encode_error"
    /\ e_reads[2].status = "ok"
    /\ e_writes[2].status = "ok"
    /\ w_buffer = << >> /\ r_buffer = VecOf(<< >>)

(***************************************************************************)
(* SpecBroadcast: one AnyPacket sent with send_any to the Writers of       *)
(* several connections (mod.rs:282-305), each connection at the client     *)
(* version it negotiated.                                                  *)
(***************************************************************************)
\* recipients of a broadcast
MaxRecipients == 2
Recipients == 1..MaxRecipients

\* packet types that are broadcast
BroadcastTypes == {"ServerList", "CreateCharacterClassic"}

\* An AnyPacket and the value inside it; what the value's encoder writes is
\* settled by the value and the client version.
BroadcastPackets ==
    {[type |-> T, kind |-> PacketKind(T), encodes_to |-> e] :
        T \in BroadcastTypes, e \in [Versions -> EncodeOutcomes]}

\* Writer::buffer as an earlier send left it: empty, or what a send whose
\* encode failed had pushed before the failure (mod.rs:270-271)
LeftoverBuffers == {<< >>, << 168, 0, 0 >>}

\* AnyPacket::encode (mod.rs:165-167): the registered encoder runs on the
\* wrapped value at the caller's client version.
AnyPacketEncode_FirstVersion(packet, client_version) == packet.encodes_to[1]
AnyPacketEncode(packet, client_version) == packet.encodes_to[client_version]

\* runs of packet.encode in one send_any: one on either branch, once the
\* registration has been found (mod.rs:287-294)
EncodeRuns(packet) == IF IsSome(packet_registry[packet.kind]) THEN 1 ELSE 0

OnlyBroadcast ==
    /\ new_io(FALSE, FALSE) /\ NoAnyPackets /\ NoRegistry /\ NoTwofish
    /\ NoEnd /\ NoUpdate

InitBroadcast ==
    /\ OnlyBroadcast
    /\ b_packet \in BroadcastPackets
    /\ b_writers \in [Recipients ->
                        [version : Versions, leftover : LeftoverBuffers,
                         has_sent : {TRUE}, buffer : LeftoverBuffers,
                         held : {<< >>}, out : {<< >>},
                         status : {"none"}, written : {<< >>}]]
    /\ \A c \in Recipients : b_writers[c].buffer = b_writers[c].leftover
    /\ b_encodes = 0

\* the broadcaster's call of send_any on the Writer of recipient c
BroadcastSendAny(c) ==
    /\ b_writers[c].status = "none"
    /\ LET w == b_writers[c]
           enc == AnyPacketEncode(b_packet, w.version)
           step == SendAnyStep(w.has_sent, w.buffer, w.held, w.out, FALSE,
                               w.version, b_packet, enc)
       IN  b_writers' = [b_writers EXCEPT ![c] =
                            [version |-> w.version, leftover |-> w.leftover,
                             has_sent |-> step.has_sent,
                             buffer |-> step.buffer, held |-> step.held,
                             out |-> step.out, status |-> step.status,
                             written |-> step.written]]
    /\ b_encodes' = b_encodes + EncodeRuns(b_packet)
    /\ UNCHANGED << b_packet, core_vars, any_vars, registry_vars, twofish_vars,
                    end_vars, update_vars >>

NextBroadcast == \E c \in Recipients : BroadcastSendAny(c)

SpecBroadcast == InitBroadcast /\ [][NextBroadcast]_vars

\* recipients whose send_any has returned, and those it returned Ok to
Called == {c \in Recipients : b_writers[c].status # "none"}
Reached == {c \in Recipients : b_writers[c].status = "ok"}

\* the last n bytes of s
LastBytes(s, n) == Drop(s, Len(s) - n)

C12_KindIsOwnRegistration ==
    r_result.status = "ok" =>
        LET packet == r_result.packet
            slot == packet_registry[packet.kind]
        IN  /\ IsSome(slot)
            /\ Unwrap(slot).type = packet.type

(***************************************************************************)
(* SpecAny: AnyPacket containers (mod.rs:110-184).  A container is made    *)
(* by from_packet around a value of some packet type; the value stays in   *)
(* the container's buffer until into_downcast moves it out or the          *)
(* container is dropped.  Each entry of any_packets follows one value:     *)
(*   type, kind, payload   the type of the value, the container's kind     *)
(*                         tag and what the value holds;                   *)
(*   holder                "any" while the container owns the value,       *)
(*                         "caller" once into_downcast has moved it out,   *)
(*                         "nobody" when its owner has been dropped;       *)
(*   as                    the type the caller was handed the value as;    *)
(*   released              runs of the destructor of the value's own type  *)
(*                         over it;                                        *)
(*   misreleased           runs of another type's destructor over it.      *)
(* The types wrapped here fit the container's buffer.                      *)
(***************************************************************************)
\* containers made in one behaviour
MaxPackets == 2

\* types of the values wrapped and of the downcasts asked for
WrapTypes == {"ServerList", "CreateCharacterClassic", "LegacySeed"}
\* what a value holds
Payloads == {0, 1}

\* P::packet_kind() == self.kind (mod.rs:140, 148, 156)
KindMatches_Always(P, kind) == TRUE
KindMatches(P, kind) == PacketKind(P) = kind

\* the destructor of type T runs over the value of container c
RunDestructor(c, T) ==
    IF T = c.type
    THEN [c EXCEPT !.holder = "nobody", !.as = "", !.released = @ + 1]
    ELSE [c EXCEPT !.holder = "nobody", !.as = "", !.misreleased = @ + 1]

\* Drop for AnyPacket (mod.rs:170-178): the destructor registered under the
\* container's kind runs over the buffer; registration() panics on an empty
\* slot and then no destructor runs.
DropAnyPacket(c) ==
    LET slot == packet_registry[c.kind]
    IN  IF IsSome(slot) THEN RunDestructor(c, Unwrap(slot).type)
        ELSE [c EXCEPT !.holder = "nobody"]

OnlyAny ==
    /\ new_io(FALSE, FALSE) /\ NoBroadcast /\ NoRegistry /\ NoTwofish
    /\ NoEnd /\ NoUpdate

InitAny == OnlyAny /\ any_packets = << >> /\ any_result = [op |-> "none"]

AnyCall(i, op, P, status, after) ==
    /\ any_packets' = [any_packets EXCEPT ![i] = after]
    /\ any_result' = [op |-> op, P |-> P, slot |-> i, status |-> status,
                      before |-> any_packets[i]]
    /\ UNCHANGED << core_vars, bcast_vars, registry_vars, twofish_vars,
                    end_vars, update_vars >>

\* AnyPacket::from_packet(packet) (mod.rs:127-137)
FromPacket ==
    \E P \in WrapTypes, payload \in Payloads :
        /\ Len(any_packets) < MaxPackets
        /\ any_packets' = Append(any_packets,
               [type |-> P, kind |-> PacketKind(P), payload |-> payload,
                holder |-> "any", as |-> "", released |-> 0,
                misreleased |-> 0])
        /\ any_result' = [op |-> "from_packet", P |-> P,
                          slot |-> Len(any_packets) + 1, status |-> "Ok"]
        /\ UNCHANGED << core_vars, bcast_vars, registry_vars, twofish_vars,
                        end_vars, update_vars >>

\* AnyPacket::downcast::<P>() (mod.rs:139-145)
Downcast ==
    \E i \in DOMAIN any_packets, P \in WrapTypes :
        /\ any_packets[i].holder = "any"
        /\ AnyCall(i, "downcast", P,
                   IF KindMatches(P, any_packets[i].kind) THEN "Some" ELSE "None",
                   any_packets[i])

\* AnyPacket::downcast_mut::<P>() (mod.rs:147-153), and the caller writing
\* through the reference it was given
DowncastMut ==
    \E i \in DOMAIN any_packets, P \in WrapTypes, payload \in Payloads :
        /\ any_packets[i].holder = "any"
        /\ IF KindMatches(P, any_packets[i].kind)
           THEN AnyCall(i, "downcast_mut", P, "Some",
                        [any_packets[i] EXCEPT !.payload = payload])
           ELSE AnyCall(i, "downcast_mut", P, "None", any_packets[i])

\* AnyPacket::into_downcast::<P>() (mod.rs:155-163): on a match the value is
\* read out and the container forgotten, otherwise the container comes back.
IntoDowncast ==
    \E i \in DOMAIN any_packets, P \in WrapTypes :
        /\ any_packets[i].holder = "any"
        /\ IF KindMatches(P, any_packets[i].kind)
           THEN AnyCall(i, "into_downcast", P, "Ok",
                        [any_packets[i] EXCEPT !.holder = "caller", !.as = P])
           ELSE AnyCall(i, "into_downcast", P, "Err", any_packets[i])

\* an AnyPacket goes out of scope
DropAny ==
    \E i \in DOMAIN any_packets :
        /\ any_packets[i].holder = "any"
        /\ AnyCall(i, "drop", any_packets[i].type, "", DropAnyPacket(any_packets[i]))

\* a value moved out by into_downcast goes out of scope at its new owner
DropValue ==
    \E i \in DOMAIN any_packets :
        /\ any_packets[i].holder = "caller"
        /\ AnyCall(i, "drop_value", any_packets[i].as, "",
                   RunDestructor(any_packets[i], any_packets[i].as))

NextAny ==
    FromPacket \/ Downcast \/ DowncastMut \/ IntoDowncast \/ DropAny \/ DropValue

SpecAny == InitAny /\ [][NextAny]_vars

\* C13: the destructor of every wrapped value runs exactly once, when its
\* owner goes: not before, not twice, and no other type's destructor runs
\* over it; a failed into_downcast gives back a container that still owns
\* the value.
C13_ReleasedExactlyOnce ==
    /\ \A i \in DOMAIN any_packets :
          LET c == any_packets[i]
          IN  /\ c.misreleased = 0
              /\ c.released = IF c.holder = "nobody" THEN 1 ELSE 0
    /\ (any_result.op = "into_downcast" /\ any_result.status = "Err")
          => any_packets[any_result.slot].holder = "any"

\* C14: a downcast to a type whose kind is not the container's kind fails
\* with a value (None from downcast and downcast_mut, Err holding the
\* container from into_downcast) and leaves the container as it was: same
\* kind, same payload, still the owner of its value.
C14_MismatchLeavesUntouched ==
    (/\ any_result.op \in {"downcast", "downcast_mut", "into_downcast"}
     /\ PacketKind(any_result.P) # any_result.before.kind)
    => /\ any_result.status =
             IF any_result.op = "into_downcast" THEN "Err" ELSE "None"
       /\ any_packets[any_result.slot] = any_result.before
       /\ any_packets[any_result.slot].holder = "any"

\* into_downcast has failed on a container of another kind, which is handed back
C14_Witness ==
    /\ any_result.op = "into_downcast"
    /\ any_result.status = "Err"
    /\ PacketKind(any_result.P) # any_result.before.kind
    /\ any_result.before.payload = 1
    /\ any_packets[any_result.slot].holder = "any"

(***************************************************************************)
(* SpecRegistry: threads making their first calls of packet_registry()     *)
(* (mod.rs:80-108).  PACKET_REGISTRY is a OnceCell: get_or_init returns    *)
(* the stored table if there is one; otherwise one caller at a time runs   *)
(* the initializer while the others wait, the table the initializer        *)
(* returns is stored, and a panic of the initializer leaves the cell       *)
(* empty and reaches the caller that ran it.                               *)
(* The sizes of the packet types are those of protocol/login.rs; they are  *)
(* an input here.                                                          *)
(***************************************************************************)
MAX_PACKET_STRUCT_SIZE == 64

\* threads calling packet_registry()
MaxThreads == 3
Threads == 1..MaxThreads

RegisteredTypes == {RegistrationList[i] : i \in DOMAIN RegistrationList}

\* size_of::<T>() of the registered types: two of them vary
SizeChoices == {48, MAX_PACKET_STRUCT_SIZE, 72}
TypeSizes ==
    {[t \in RegisteredTypes |->
        IF t = "ServerList" THEN a ELSE IF t = "CharacterList" THEN b ELSE 8] :
        a \in SizeChoices, b \in SizeChoices}

\* max_size after the pass over the registration list (mod.rs:83, 98)
RECURSIVE MaxSize(_, _, _)
MaxSize(sizes, max_size, i) ==
    IF i > Len(RegistrationList) THEN max_size
    ELSE LET size == sizes[RegistrationList[i]]
         IN  MaxSize(sizes, IF size > max_size THEN size ELSE max_size, i + 1)

\* assert_eq!(max_size, MAX_PACKET_STRUCT_SIZE) (mod.rs:103)
SizeCheck_AtMost(max_size) == max_size <= MAX_PACKET_STRUCT_SIZE
SizeCheck(max_size) == max_size = MAX_PACKET_STRUCT_SIZE

\* the initializer closure (mod.rs:81-107)
Initializer(sizes) ==
    [ok |-> SizeCheck(MaxSize(sizes, 0, 1)),
     registrations |-> BuildRegistrations([k \in 0..255 |-> None], 1)]

\* get_or_init lets a caller run the initializer when the cell is empty and
\* no other caller is running it
MayInitialize_Unguarded(cell, cs) == ~IsSome(cell)
MayInitialize(cell, cs) ==
    ~IsSome(cell) /\ \A t \in DOMAIN cs : cs[t].pc # "building"

OnlyRegistry ==
    /\ new_io(FALSE, FALSE) /\ NoBroadcast /\ NoAnyPackets /\ NoTwofish
    /\ NoEnd /\ NoUpdate

InitRegistry ==
    /\ OnlyRegistry
    /\ PACKET_REGISTRY = None
    /\ type_sizes \in TypeSizes
    /\ callers = [t \in Threads |-> [pc |-> "idle", waited |-> FALSE, seen |-> None]]
    /\ builds = 0

\* a caller enters get_or_init, for the first time or after waiting
Enter(t) ==
    /\ IF IsSome(PACKET_REGISTRY)
       THEN /\ callers' = [callers EXCEPT ![t].pc = "returned",
                                          ![t].seen = PACKET_REGISTRY]
            /\ UNCHANGED builds
       ELSE IF MayInitialize(PACKET_REGISTRY, callers)
       THEN /\ callers' = [callers EXCEPT ![t].pc = "building"]
            /\ builds' = builds + 1
       ELSE /\ callers' = [callers EXCEPT ![t].pc = "waiting",
                                          ![t].waited = TRUE]
            /\ UNCHANGED builds
    /\ UNCHANGED << PACKET_REGISTRY, type_sizes, core_vars, bcast_vars,
                    any_vars, twofish_vars, end_vars, update_vars >>

\* packet_registry() called by a thread that has not called it yet
CallRegistry == \E t \in Threads : callers[t].pc = "idle" /\ Enter(t)

\* a waiting caller is woken when the initializer has ended
Wake ==
    \E t \in Threads :
        /\ callers[t].pc = "waiting"
        /\ \A u \in Threads : callers[u].pc # "building"
        /\ Enter(t)

\* the initializer of a caller ends: with a table, which is stored and
\* returned, or in the panic of its assertion
FinishBuild ==
    \E t \in Threads :
        /\ callers[t].pc = "building"
        /\ LET built == Initializer(type_sizes)
           IN  IF built.ok
               THEN /\ PACKET_REGISTRY' = Some(built.registrations)
                    /\ callers' = [callers EXCEPT ![t].pc = "returned",
                                      ![t].seen = Some(built.registrations)]
               ELSE /\ callers' = [callers EXCEPT ![t].pc = "panicked"]
                    /\ UNCHANGED PACKET_REGISTRY
        /\ UNCHANGED << type_sizes, builds, core_vars, bcast_vars, any_vars,
                        twofish_vars, end_vars, update_vars >>

NextRegistry == CallRegistry \/ Wake \/ FinishBuild

SpecRegistry == InitRegistry /\ [][NextRegistry]_vars

\* the largest of the sizes of the registered types
LargestSize ==
    CHOOSE m \in {type_sizes[t] : t \in RegisteredTypes} :
        \A t \in RegisteredTypes : type_sizes[t] <= m

C16_BuiltIffMaxSize ==
    /\ \A t \in Threads :
          /\ callers[t].pc = "returned" => LargestSize = MAX_PACKET_STRUCT_SIZE
          /\ callers[t].pc = "panicked" => LargestSize # MAX_PACKET_STRUCT_SIZE
    /\ IsSome(PACKET_REGISTRY) <=> \E t \in Threads : callers[t].pc = "returned"
    /\ IsSome(PACKET_REGISTRY) =>
          \A t \in RegisteredTypes : type_sizes[t] <= MAX_PACKET_STRUCT_SIZE

\* a build has ended with a table, for types of which one is smaller than
\* the largest
C16_Witness ==
    /\ IsSome(PACKET_REGISTRY)
    /\ \E t \in RegisteredTypes : type_sizes[t] = MAX_PACKET_STRUCT_SIZE
    /\ type_sizes["ServerList"] < MAX_PACKET_STRUCT_SIZE
    /\ \A t \in Threads : callers[t].pc = "returned"

\* C17: when threads make their first calls of packet_registry() at once
\* and the sizes let a build end, the initializer runs once, every caller
\* that has returned holds the one table, built in full, and the table in
\* the cell is the one that was first stored.
C17_BuiltOnce ==
    LargestSize = MAX_PACKET_STRUCT_SIZE =>
        /\ builds <= 1
        /\ IsSome(PACKET_REGISTRY) => builds = 1
        /\ \A t \in Threads :
              callers[t].pc = "returned" =>
                  /\ IsSome(PACKET_REGISTRY)
                  /\ callers[t].seen = PACKET_REGISTRY
                  /\ Unwrap(callers[t].seen) = packet_registry

\* every thread has returned, one of them after waiting for the build of
\* another
C17_Witness ==
    /\ \A t \in Threads : callers[t].pc = "returned"
    /\ \E t \in Threads : callers[t].waited
    /\ builds = 1

(***************************************************************************)
(* Twofish (protocol/encryption/twofish.rs).  A u8 is a number in 0..255.  *)
(* A u32 is kept as its two 16-bit halves, [hi, lo]: every operation on    *)
(* words below works on the halves.                                        *)
(***************************************************************************)
QORD ==
    << << 1, 1, 0, 0, 1 >>,
       << 0, 1, 1, 0, 0 >>,
       << 0, 0, 0, 1, 1 >>,
       << 1, 0, 1, 1, 0 >> >>

QBOX ==
    << << << \h8, \h1, \h7, \hD, \h6, \hF, \h3, \h2, \h0, \hB, \h5, \h9, \hE, \hC, \hA, \h4 >>,
          << \hE, \hC, \hB, \h8, \h1, \h2, \h3, \h5, \hF, \h4, \hA, \h6, \h7, \h0, \h9, \hD >>,
          << \hB, \hA, \h5, \hE, \h6, \hD, \h9, \h0, \hC, \h8, \hF, \h3, \h2, \h4, \h7, \h1 >>,
          << \hD, \h7, \hF, \h4, \h1, \h2, \h6, \hE, \h9, \hB, \h3, \h0, \h8, \h5, \hC, \hA >> >>,
       << << \h2, \h8, \hB, \hD, \hF, \h7, \h6, \hE, \h3, \h1, \h9, \h4, \h0, \hA, \hC, \h5 >>,
          << \h1, \hE, \h2, \hB, \h4, \hC, \h3, \h7, \h6, \hD, \hA, \h5, \hF, \h9, \h0, \h8 >>,
          << \h4, \hC, \h7, \h5, \h1, \h6, \h9, \hA, \h0, \hE, \hD, \h8, \h2, \hB, \h3, \hF >>,
          << \hB, \h9, \h5, \h1, \hC, \h3, \hD, \hE, \h6, \h4, \h7, \hF, \h2, \h0, \h8, \hA >> >> >>

RS ==
    << << \h01, \hA4, \h55, \h87, \h5A, \h58, \hDB, \h9E >>,
       << \hA4, \h56, \h82, \hF3, \h1E, \hC6, \h68, \hE5 >>,
       << \h02, \hA1, \hFC, \hC1, \h47, \hAE, \h3D, \h19 >>,
       << \hA4, \h55, \h87, \h5A, \h58, \hDB, \h9E, \h03 >> >>

\* 0x169 (x^8 + x^6 + x^5 + x^3 + 1) and 0x14d (x^8 + x^6 + x^3 + x^2 + 1)
MDS_POLY == 105
RS_POLY == 77

\* a u32 as its two halves
Word == [hi : Nat, lo : Nat]

\* a ^ b bit by bit, tabulated for the numbers of four bits, and from the
\* table for numbers of any width
RECURSIVE BitXor(_, _)
BitXor(a, b) ==
    IF a = 0 THEN b
    ELSE IF b = 0 THEN a
    ELSE ((a + b) % 2) + 2 * BitXor(a \div 2, b \div 2)

NibbleXor == [a \in 0..15 |-> [b \in 0..15 |-> BitXor(a, b)]]

RECURSIVE XorNibbles(_, _)
XorNibbles(a, b) ==
    IF a = 0 THEN b
    ELSE IF b = 0 THEN a
    ELSE NibbleXor[a % 16][b % 16] + 16 * XorNibbles(a \div 16, b \div 16)

Xor[a \in Nat, b \in Nat] == XorNibbles(a, b)

\* the operations of u32 used by the cipher
XorWord[x \in Word, y \in Word] ==
    [hi |-> Xor[x.hi, y.hi], lo |-> Xor[x.lo, y.lo]]

wrapping_add[x \in Word, y \in Word] ==
    [hi |-> (x.hi + y.hi + ((x.lo + y.lo) \div 65536)) % 65536,
     lo |-> (x.lo + y.lo) % 65536]

\* sixteen places swap the halves, fewer move the top bits of each half to
\* the bottom of the other
rotate_left[x \in Word, n \in Nat] ==
    IF n >= 16 THEN rotate_left[[hi |-> x.lo, lo |-> x.hi], n - 16]
    ELSE [hi |-> ((x.hi * (2 ^ n)) % 65536) + (x.lo \div (2 ^ (16 - n))),
          lo |-> ((x.lo * (2 ^ n)) % 65536) + (x.hi \div (2 ^ (16 - n)))]

rotate_right(x, n) == rotate_left[x, 32 - n]

from_be_bytes(v) == [hi |-> v[2] + 256 * v[1], lo |-> v[4] + 256 * v[3]]
from_le_bytes(v) == [hi |-> v[3] + 256 * v[4], lo |-> v[1] + 256 * v[2]]
to_le_bytes[x \in Word] ==
    << x.lo % 256, x.lo \div 256, x.hi % 256, x.hi \div 256 >>

\* gf_mult (twofish.rs:89-103): the product of a and b in GF(2^8) modulo
\* the polynomial 0x100 + p
gf_mult[a \in Nat, b \in Nat, p \in Nat] ==
    IF a = 0 THEN 0
    ELSE Xor[IF a % 2 = 1 THEN b ELSE 0,
             gf_mult[a \div 2,
                     IF b >= 128 THEN Xor[(b * 2) % 256, p] ELSE b * 2,
                     p]]

\* the q_i permutation (twofish.rs:105-115).  SboxMix is the pair (a ^ b,
\* (a ^ ((b << 3) | (b >> 1)) ^ (a << 3)) & 15) of lines 107-108 and of
\* lines 110-111; in (b << 3) | (b >> 1) the two sides have no bit in
\* common.  SboxLookup is the pair of line 109 and of line 112, from rows n
\* and n + 1 of QBOX[i], and SboxJoin the byte of line 114.
SboxMix[a \in Nat, b \in Nat] ==
    << Xor[a, b], Xor[Xor[a, b * 8 + (b \div 2)], a * 8] % 16 >>

SboxLookup[i \in Nat, n \in Nat, ab \in Seq(Nat)] ==
    << QBOX[i + 1][n + 1][ab[1] + 1], QBOX[i + 1][n + 2][ab[2] + 1] >>

SboxJoin[ab \in Seq(Nat)] == ab[2] * 16 + ab[1]

sbox(i, x) ==
    SboxJoin[SboxLookup[i, 2, SboxMix[
                 SboxLookup[i, 0, SboxMix[x \div 16, x % 16]]]]]

\* sbox tabulated: SBOX[i][x] is sbox(i, x)
SBOX == [i \in 0..1 |-> [x \in 0..255 |-> sbox(i, x)]]

\* mds_column_mult (twofish.rs:117-129), and the word it returns for the
\* products x5b and xef
MdsColumn[x \in Nat, x5b \in Nat, xef \in Nat, column \in Nat] ==
    from_le_bytes(CASE column = 0 -> << x, x5b, xef, xef >>
                    [] column = 1 -> << xef, xef, x5b, x >>
                    [] column = 2 -> << x5b, xef, x, xef >>
                    [] column = 3 -> << x5b, x, xef, x5b >>)

mds_column_mult(x, column) ==
    MdsColumn[x, gf_mult[x, \h5B, MDS_POLY], gf_mult[x, \hEF, MDS_POLY], column]

\* mds_column_mult tabulated: MDS_COLUMN[column][x]
MDS_COLUMN ==
    [column \in 0..3 |-> [x \in 0..255 |-> mds_column_mult(x, column)]]

\* mds_mult (twofish.rs:131-137): the columns from column on
RECURSIVE MdsColumns(_, _)
MdsColumns(y, column) ==
    IF column = 4 THEN [hi |-> 0, lo |-> 0]
    ELSE XorWord[MDS_COLUMN[column][y[column + 1]], MdsColumns(y, column + 1)]

mds_mult[y \in Seq(Nat)] == MdsColumns(y, 0)

\* rs_mult (twofish.rs:139-146): the four bytes written to `out' for the
\* eight bytes m
\* the products of rs_mult tabulated: RS_MULT[i][j][x] is
\* gf_mult(x, RS[i][j], RS_POLY)
RS_MULT ==
    [i \in 0..3 |-> [j \in 0..7 |-> [x \in 0..255 |->
        gf_mult[x, RS[i + 1][j + 1], RS_POLY]]]]

RECURSIVE RsRow(_, _, _)
RsRow(m, i, j) ==
    IF j = 8 THEN 0
    ELSE Xor[RS_MULT[i][j][m[j + 1]], RsRow(m, i, j + 1)]

rs_mult(m) == [i \in 1..4 |-> RsRow(m, i - 1, 0)]

\* the indexes of m that h reads for k and offset (twofish.rs:152-171)
HReads(k, offset) ==
    {4 * (w + offset) + i :
        w \in (IF k = 4 THEN {6} ELSE {}) \cup (IF k >= 3 THEN {4} ELSE {})
              \cup {2, 0},
        i \in 0..3}

\* h (twofish.rs:149-174), for m long enough for the indexes it reads.
\* HStep is one `sbox(q, y) ^ m[..]' of lines 153-170, for byte i of y; the
\* tuples of 0s and 1s are the first arguments of the sbox calls of one
\* step for the four bytes, in the order of the lines.
HStep[q \in Nat, y \in Nat, mi \in Nat] == Xor[SBOX[q][y], mi]

HByte[i \in Nat, y \in Nat, m \in Seq(Nat), k \in Nat, offset \in Nat] ==
    LET y1 == IF k = 4
              THEN HStep[<< 1, 0, 0, 1 >>[i], y, m[4 * (6 + offset) + i]]
              ELSE y
        y2 == IF k >= 3
              THEN HStep[<< 1, 1, 0, 0 >>[i], y1, m[4 * (4 + offset) + i]]
              ELSE y1
    IN  SBOX[<< 1, 0, 1, 0 >>[i]][
            HStep[<< 0, 0, 1, 1 >>[i],
                  HStep[<< 0, 1, 0, 1 >>[i], y2, m[4 * (2 + offset) + i]],
                  m[4 * offset + i]]]

h(x, m, k, offset) ==
    mds_mult[[i \in 1..4 |-> HByte[i, to_le_bytes[x][i], m, k, offset]]]

\* the fields of a Twofish
TwofishState == [s : Seq(Nat), k : Seq(Word), start : Nat]

\* Twofish::new (twofish.rs:177-183)
TwofishNew ==
    [s |-> [i \in 1..16 |-> 0],
     k |-> [i \in 1..40 |-> [hi |-> 0, lo |-> 0]],
     start |-> 0]

\* g_func (twofish.rs:185-198).  GByte is byte y of the word through the
\* inner loop from step z on, GColumns the outer loop from byte y on.
\* the index into self.s of line 191, for step z of byte y
SIndex_FromKeyOf32(start, z, y) == 4 * (z - 1) + y
SIndex(start, z, y) == 4 * (z - start - 1) + y

RECURSIVE GByte(_, _, _, _)
GByte(tf, y, z, g) ==
    IF z >= 5 THEN g
    ELSE GByte(tf, y, z + 1,
               SBOX[QORD[y + 1][z + 1]][Xor[g, tf.s[SIndex(tf.start, z, y) + 1]]])

RECURSIVE GColumns(_, _, _)
GColumns(tf, b, y) ==
    IF y = 4 THEN [hi |-> 0, lo |-> 0]
    ELSE XorWord[MDS_COLUMN[y][GByte(tf, y, tf.start + 1,
                                     SBOX[QORD[y + 1][tf.start + 1]][b[y + 1]])],
                 GColumns(tf, b, y + 1)]

g_func[tf \in TwofishState, x \in Word] == GColumns(tf, to_le_bytes[x], 0)

\* `let rho: u32 = 0x1010101` (twofish.rs:203)
rho_Large == [hi |-> 4112, lo |-> 4112]
rho == [hi |-> 257, lo |-> 257]

\* x * n on u32 for a small n: the low 32 bits of the product, and whether
\* the product goes beyond them
CheckedMul(x, n) ==
    [value |-> [hi |-> (x.hi * n + (x.lo * n) \div 65536) % 65536,
                lo |-> (x.lo * n) % 65536],
     overflow |-> x.hi * n + (x.lo * n) \div 65536 >= 65536]

\* what one pass of key_schedule's loop stores in self.k[2 * x] and in
\* self.k[2 * x + 1] (twofish.rs:205-211): SubKeyWords is the pair of the
\* words a and b of lines 206 and 207 for pass x, SubKeys what lines 208-210
\* make of them, SubKeyPair the two for pass x.
SubKeyWords(key, k, x) ==
    << h(CheckedMul(rho, 2 * x).value, key, k, 0),
       rotate_left[h(CheckedMul(rho, 2 * x + 1).value, key, k, 1), 8] >>

SubKeys[ab \in Seq(Word)] ==
    << wrapping_add[ab[1], ab[2]],
       rotate_left[wrapping_add[wrapping_add[ab[1], ab[2]], ab[2]], 9] >>

SubKeyPair(key, k, x) == SubKeys[SubKeyWords(key, k, x)]

\* self.k after the twenty passes of the loop that stored `pairs'
StoredSubKeys[pairs \in Seq(Seq(Word))] ==
    [n \in 1..40 |-> pairs[(n + 1) \div 2][((n - 1) % 2) + 1]]

AllSubKeys(key, k) == StoredSubKeys[[x \in 1..20 |-> SubKeyPair(key, k, x - 1)]]

\* the bytes key[from..from + 8]
KeyPart(key, from) == [j \in 1..8 |-> key[from + j]]

\* key_schedule (twofish.rs:200-223): the fields after the call, or as the
\* panic left them
key_schedule(tf, key) ==
    LET k == Len(key) \div 8
    IN
    IF \E offset \in {0, 1} : \E i \in HReads(k, offset) : i >= Len(key)
    THEN \* index out of bounds in h, before the first subkey is stored
         [status |-> "panic", twofish |-> tf]
    ELSE IF k \notin {2, 3, 4}
    THEN \* unreachable!(), after the subkeys are stored
         [status |-> "panic",
          twofish |-> [s |-> tf.s,
                       k |-> AllSubKeys(key, k),
                       start |-> tf.start]]
    ELSE [status |-> "ok",
          twofish |->
            [s |-> [n \in 1..16 |->
                      IF (n - 1) \div 4 < k
                      THEN rs_mult(KeyPart(key, 8 * ((n - 1) \div 4)))[((n - 1) % 4) + 1]
                      ELSE tf.s[n]],
             k |-> AllSubKeys(key, k),
             start |-> CASE k = 4 -> 0 [] k = 3 -> 1 [] k = 2 -> 2]]

\* one of the two rounds of a pass of encrypt's loop (twofish.rs:241-245 and
\* 247-251).  RoundOut is the pair the round leaves in the two words it
\* writes, c and d, for g0 and t1 the two g_func results and k0 and k1 the
\* round's subkeys; Round is the round on p[a], p[b], p[c] and p[d] with the
\* subkeys k[j + 1] and k[j + 2].
RoundOut[g0 \in Word, t1 \in Word, c \in Word, d \in Word, k0 \in Word, k1 \in Word] ==
    << rotate_right(XorWord[c, wrapping_add[wrapping_add[g0, t1], k0]], 1),
       XorWord[rotate_left[d, 1],
               wrapping_add[wrapping_add[t1, wrapping_add[g0, t1]], k1]] >>

Round[tf \in TwofishState, a \in Word, b \in Word, c \in Word, d \in Word, j \in Nat] ==
    RoundOut[g_func[tf, a], g_func[tf, rotate_left[b, 8]], c, d,
             tf.k[j + 1], tf.k[j + 2]]

\* the second round of a pass, on the p2 and p3 the first one left
SecondRound[tf \in TwofishState, p \in Seq(Word), p23 \in Seq(Word), k \in Nat] ==
    Round[tf, p23[1], p23[2], p[1], p[2], k + 2] \o p23

\* one pass of encrypt's loop (twofish.rs:238-252): p after the pass that
\* uses the subkeys k[k + 1] to k[k + 4]
Pass[tf \in TwofishState, p \in Seq(Word), k \in Nat] ==
    SecondRound[tf, p, Round[tf, p[1], p[2], p[3], p[4], k], k]

\* the passes of encrypt's loop from pass r on
Rounds[tf \in TwofishState, p \in Seq(Word), r \in Nat] ==
    IF r = 8 THEN p ELSE Rounds[tf, Pass[tf, p, 4 * r + 8], r + 1]

\* the end of encrypt (twofish.rs:254-263): the block written for the words p
Output[tf \in TwofishState, p \in Seq(Word)] ==
    to_le_bytes[XorWord[p[3], tf.k[5]]] \o to_le_bytes[XorWord[p[4], tf.k[6]]]
    \o to_le_bytes[XorWord[p[1], tf.k[7]]] \o to_le_bytes[XorWord[p[2], tf.k[8]]]

\* word i of the block b, whitened (twofish.rs:226-236)
Whitened(tf, b, i) ==
    XorWord[from_le_bytes(<< b[4 * i + 1], b[4 * i + 2], b[4 * i + 3], b[4 * i + 4] >>),
            tf.k[i + 1]]

\* encrypt (twofish.rs:225-264): the 16 bytes of b after the call, for a b
\* of 16 bytes
encrypt(tf, b) ==
    Output[tf, Rounds[tf, [i \in 1..4 |-> Whitened(tf, b, i - 1)], 0]]

(***************************************************************************)
(* SpecTwofish: one Twofish value, keyed by key_schedule and used by       *)
(* encrypt, in any order the signatures allow.  `twofish' is the value's   *)
(* fields, `block' the caller's 16-byte buffer after the last encrypt, and *)
(* `tf_call' what the last call was, with every block encrypted since the  *)
(* fields were last written.  A panic ends the behaviour.                  *)
(***************************************************************************)
\* most key_schedule calls in one behaviour
MaxSchedules == 2
\* most encrypt calls in one behaviour
MaxEncrypts == 3

ZeroKey16 == [i \in 1..16 |-> 0]
Key24 ==
    << \h01, \h23, \h45, \h67, \h89, \hAB, \hCD, \hEF,
       \hFE, \hDC, \hBA, \h98, \h76, \h54, \h32, \h10,
       \h00, \h11, \h22, \h33, \h44, \h55, \h66, \h77 >>
Key32 == Key24 \o << \h88, \h99, \hAA, \hBB, \hCC, \hDD, \hEE, \hFF >>
\* a key of n bytes, 1 to n
CountKey(n) == [i \in 1..n |-> i]
SupportedLengths == {16, 24, 32}
OtherLengths == {0, 8, 17, 23, 25, 31, 33, 40}
Keys == {ZeroKey16, Key24, Key32} \cup {CountKey(n) : n \in OtherLengths}

ZeroBlock == [i \in 1..16 |-> 0]
CountBlock == [i \in 1..16 |-> 16 * i - 1]
Blocks == {ZeroBlock, CountBlock}

\* encrypt takes &mut self (twofish.rs:225) and assigns to no field
\* (226-263): the fields after the call
SelfAfterEncrypt_NextSubkeys(tf) ==
    [tf EXCEPT !.k = [n \in 1..40 |-> tf.k[(n % 40) + 1]]]
SelfAfterEncrypt(tf) == tf

OnlyTwofish ==
    /\ new_io(FALSE, FALSE) /\ NoBroadcast /\ NoAnyPackets /\ NoRegistry
    /\ NoEnd /\ NoUpdate

InitTwofish ==
    /\ OnlyTwofish
    /\ twofish = TwofishNew
    /\ block = ZeroBlock
    /\ tf_call = [op |-> "new", status |-> "ok", key |-> << >>,
                  installed |-> TwofishNew, log |-> << >>,
                  schedules |-> 0, encrypts |-> 0]

KeySchedule(key) ==
    /\ tf_call.status = "ok"
    /\ tf_call.schedules < MaxSchedules
    /\ \E r \in {key_schedule(twofish, key)} :
           /\ twofish' = r.twofish
           /\ tf_call' = [op |-> "key_schedule", status |-> r.status,
                          key |-> key, installed |-> r.twofish, log |-> << >>,
                          schedules |-> tf_call.schedules + 1,
                          encrypts |-> tf_call.encrypts]
    /\ UNCHANGED << block, core_vars, bcast_vars, any_vars, registry_vars,
                    end_vars, update_vars >>

Encrypt(b) ==
    /\ tf_call.status = "ok"
    /\ tf_call.encrypts < MaxEncrypts
    /\ block' = encrypt(twofish, b)
    /\ twofish' = SelfAfterEncrypt(twofish)
    /\ tf_call' = [tf_call EXCEPT
                     !.op = "encrypt",
                     !.log = Append(@, [input |-> b, output |-> block']),
                     !.encrypts = @ + 1]
    /\ UNCHANGED << core_vars, bcast_vars, any_vars, registry_vars,
                    end_vars, update_vars >>

CallKeySchedule == \E key \in Keys : KeySchedule(key)
CallEncrypt == \E b \in Blocks : Encrypt(b)

NextTwofish == CallKeySchedule \/ CallEncrypt

SpecTwofish == InitTwofish /\ [][NextTwofish]_vars

\* the last key_schedule returned, with this key
KeyedWith(key) ==
    /\ tf_call.schedules > 0
    /\ tf_call.status = "ok"
    /\ tf_call.key = key
\* every encrypt of block b since the fields were last written gave out
EncryptsTo(b, out) ==
    \A i \in 1..Len(tf_call.log) :
        tf_call.log[i].input = b => tf_call.log[i].output = out

\* C18: after key_schedule with a key of the official test vectors, encrypt
\* of the all-zero block gives the published ciphertext, for the 16-byte
\* all-zero key, the 24-byte key and the 32-byte key.
C18_OfficialVectors ==
    /\ KeyedWith(ZeroKey16) =>
         EncryptsTo(ZeroBlock,
             << \h9F, \h58, \h9F, \h5C, \hF6, \h12, \h2C, \h32,
                \hB6, \hBF, \hEC, \h2F, \h2A, \hE8, \hC3, \h5A >>)
    /\ KeyedWith(Key24) =>
         EncryptsTo(ZeroBlock,
             << \hCF, \hD1, \hD2, \hE5, \hA9, \hBE, \h9C, \hDF,
                \h50, \h1F, \h13, \hB8, \h92, \hBD, \h22, \h48 >>)
    /\ KeyedWith(Key32) =>
         EncryptsTo(ZeroBlock,
             << \h37, \h52, \h7B, \hE0, \h05, \h23, \h34, \hB8,
                \h9F, \h0C, \hFC, \hCA, \hE8, \h7C, \hFA, \h20 >>)

\* the 16-byte key is installed over a longer one, whose last S-box key
\* bytes are still in s, and the all-zero block has been encrypted after
\* another block
C18_Witness ==
    /\ KeyedWith(ZeroKey16)
    /\ tf_call.schedules = 2
    /\ \E n \in 9..16 : twofish.s[n] # 0
    /\ Len(tf_call.log) >= 2
    /\ tf_call.log[1].input # ZeroBlock
    /\ tf_call.log[Len(tf_call.log)].input = ZeroBlock

\* C19: key_schedule returns with a schedule installed only for a key of 16,
\* 24 or 32 bytes; for a key of any other length it panics.
C19_OtherLengthsPanic ==
    (tf_call.op = "key_schedule" /\ Len(tf_call.key) \notin SupportedLengths)
        => tf_call.status = "panic"

\* C20: encrypt leaves s, k and start as the last key_schedule (or new) left
\* them, and under them one input block has one ciphertext, whatever was
\* encrypted in between.
C20_EncryptDeterministic ==
    /\ twofish = tf_call.installed
    /\ \A i, j \in 1..Len(tf_call.log) :
          tf_call.log[i].input = tf_call.log[j].input
              => tf_call.log[i].output = tf_call.log[j].output

\* under one key schedule a block was encrypted, then another, then the
\* first again
C20_Witness ==
    /\ tf_call.schedules > 0
    /\ Len(tf_call.log) = 3
    /\ tf_call.log[1].input = tf_call.log[3].input
    /\ tf_call.log[2].input # tf_call.log[1].input

\* x is a value of u32
IsU32(x) == x.hi \in 0..65535 /\ x.lo \in 0..65535
\* a + b goes beyond 32 bits
AddWraps(a, b) == a.hi + b.hi + (a.lo + b.lo) \div 65536 >= 65536

\* C27: no arithmetic step of key_schedule or encrypt goes beyond the width
\* of its type where that would trap: the products rho * (2 * x) and
\* rho * (2 * x + 1) fit 32 bits for every pass x of the loop, the sum
\* (b4 << 4) + a4 of sbox fits 8 bits for both boxes and every byte, and the
\* 32-bit additions wrap: key_schedule with a key of a supported length and
\* every encrypt after it return, and leave subkeys and a block within the
\* width of their types.
C27_NoOverflowTrap ==
    /\ \A n \in 0..39 : ~CheckedMul(rho, n).overflow
    /\ \A i \in 0..1, x \in 0..255 : SBOX[i][x] \in 0..255
    /\ (tf_call.op = "key_schedule" /\ Len(tf_call.key) \in SupportedLengths)
          => tf_call.status = "ok"
    /\ (tf_call.schedules > 0 /\ tf_call.status = "ok") =>
          /\ \A n \in 1..40 : IsU32(twofish.k[n])
          /\ \A n \in 1..16 : twofish.s[n] \in 0..255
          /\ tf_call.op = "encrypt" =>
                (Len(block) = 16 /\ \A n \in 1..16 : block[n] \in 0..255)

\* the 32-byte key was scheduled, with a pass whose addition a + b went
\* beyond 32 bits and wrapped, and a block was encrypted under it
C27_Witness ==
    /\ KeyedWith(Key32)
    /\ tf_call.op = "encrypt"
    /\ \E x \in 0..19 :
          LET ab == SubKeyWords(Key32, 4, x)
          IN  /\ AddWraps(ab[1], ab[2])
              /\ twofish.k[2 * x + 1] = wrapping_add[ab[1], ab[2]]

\* encrypt of the block b by a Twofish of the fields tf
EncryptUnder[tf \in TwofishState, b \in Seq(Nat)] == encrypt(tf, b)

\* the fields that decide what encrypt gives: the subkeys, start, and the
\* bytes of s that g_func reads for this start
Schedule[tf \in TwofishState] ==
    [k |-> tf.k, start |-> tf.start,
     s |-> [n \in 1..(4 * (4 - tf.start)) |-> tf.s[n]]]

\* C32: after key_schedule with a key of a supported length on an instance
\* that an earlier key_schedule had keyed, with a longer key or a shorter
\* one, the subkeys, start and the S-box key bytes that g_func reads are
\* those of a fresh instance keyed with the same key, and every encrypt
\* since gave the ciphertext the fresh instance gives for its block.
C32_LastKeyDecides ==
    (/\ tf_call.schedules = 2 /\ tf_call.status = "ok"
     /\ Len(tf_call.key) \in SupportedLengths) =>
        /\ Schedule[twofish]
              = Schedule[key_schedule(TwofishNew, tf_call.key).twofish]
        /\ \A i \in 1..Len(tf_call.log) :
              tf_call.log[i].output
                = EncryptUnder[key_schedule(TwofishNew, tf_call.key).twofish,
                               tf_call.log[i].input]

\* a key of a supported length was installed over a longer one, bytes of
\* which are still in s beyond those of the new key, and a block has been
\* encrypted since
C32_Witness ==
    /\ tf_call.schedules = 2 /\ tf_call.status = "ok"
    /\ Len(tf_call.key) \in SupportedLengths
    /\ \E n \in (4 * (Len(tf_call.key) \div 8) + 1)..16 : twofish.s[n] # 0
    /\ tf_call.op = "encrypt"

(***************************************************************************)
(* SpecUpdate: one call of send_update (server/src/world/net/update.rs:    *)
(* 13-29).  u_clients is what the iterator yields, in its order: for each  *)
(* client whether its CanSee holds the entity, whether its HasSeen does,   *)
(* and the packets send_packet_arc has been handed for it.  u_call is the  *)
(* call: its locals update_packet_factory and update_packet, the runs of   *)
(* the factory so far, the client the loop is at, and whether the call is  *)
(* running, has returned or has panicked.  A packet is named by the run of *)
(* the factory that made it; clones of one Arc are one packet.             *)
(***************************************************************************)
\* most clients the iterator yields
MaxClients == 3

UpdateClients ==
    UNION {[1..n -> [can_see : BOOLEAN, has_seen : BOOLEAN, packets : {<< >>}]] :
              n \in 0..MaxClients}

InitUpdate ==
    /\ new_io(FALSE, FALSE)
    /\ NoBroadcast /\ NoAnyPackets /\ NoRegistry /\ NoTwofish /\ NoEnd
    /\ NoWorld /\ NoSeen
    /\ u_clients \in UpdateClients
    \* lines 18-19
    /\ u_call = [update_packet_factory |-> Some("factory"),
                 update_packet |-> None, runs |-> 0, next |-> 1,
                 status |-> "running"]

update_frame ==
    << core_vars, bcast_vars, any_vars, registry_vars, twofish_vars, end_vars,
       world_vars, seen_vars >>

\* Option::take (line 25): the option's value, and None left in its place
OptionTake(o) == [value |-> o, left |-> None]

\* Option::get_or_insert_with(f) (line 25): f runs only when the option is
\* empty, and what it returns is kept
GetOrInsertWith(o, runs) ==
    IF IsSome(o) THEN [option |-> o, runs |-> runs]
    ELSE [option |-> Some(runs + 1), runs |-> runs + 1]

\* one pass of the loop (lines 21-28) for a client that cannot see the entity
SkipClient ==
    /\ u_call.status = "running"
    /\ u_call.next <= Len(u_clients)
    /\ ~u_clients[u_call.next].can_see
    /\ u_call' = [u_call EXCEPT !.next = @ + 1]
    /\ UNCHANGED << u_clients, update_frame >>

\* one pass of the loop for a client that can see it.  The argument of
\* get_or_insert_with is evaluated before the call, on every pass: take()
\* empties update_packet_factory and unwrap() panics on what a second take()
\* gives.
UpdateClient ==
    /\ u_call.status = "running"
    /\ u_call.next <= Len(u_clients)
    /\ u_clients[u_call.next].can_see
    /\ LET i == u_call.next
           taken == OptionTake(u_call.update_packet_factory)
           got == GetOrInsertWith(u_call.update_packet, u_call.runs)
           packet == Unwrap(got.option)
       IN  IF ~IsSome(taken.value)
           THEN /\ u_clients' = [u_clients EXCEPT ![i].has_seen = TRUE]
                /\ u_call' = [u_call EXCEPT !.status = "panic"]
           ELSE /\ u_clients' = [u_clients EXCEPT
                                    ![i].has_seen = TRUE,
                                    ![i].packets = Append(@, packet)]
                /\ u_call' = [u_call EXCEPT
                                 !.update_packet_factory = taken.left,
                                 !.update_packet = got.option,
                                 !.runs = got.runs,
                                 !.next = @ + 1]
    /\ UNCHANGED update_frame

\* the iterator is exhausted: send_update returns
UpdateReturn ==
    /\ u_call.status = "running"
    /\ u_call.next > Len(u_clients)
    /\ u_call' = [u_call EXCEPT !.status = "returned"]
    /\ UNCHANGED << u_clients, update_frame >>

NextUpdate == SkipClient \/ UpdateClient \/ UpdateReturn

SpecUpdate == InitUpdate /\ [][NextUpdate]_vars

\* the clients that can see the entity
Seeing == {i \in DOMAIN u_clients : u_clients[i].can_see}

\* C24 as stated: a call of send_update runs the packet factory exactly once
\* when at least one client can see the entity and not at all when none
\* can, and hands every client that can see the entity that one packet.
C24_FactoryOnceShared ==
    u_call.status # "running" =>
        /\ u_call.runs = IF Seeing = {} THEN 0 ELSE 1
        /\ \A i \in Seeing : u_clients[i].packets = << 1 >>
        /\ \A i \in DOMAIN u_clients \ Seeing : u_clients[i].packets = << >>

(***************************************************************************)
(* SpecWorld: one entity of the world and the systems of                   *)
(* server/src/world/net/update.rs that keep its cached states: each system *)
(* has a query for entities that lack the cached state, one for entities   *)
(* that hold it and have a watched component changed since the system last *)
(* ran, and one for entities to take it from.  The game logic inserts,     *)
(* writes and removes components between the runs; the systems run in any  *)
(* order.  What a system's Commands queue is applied when the system ends. *)
(* A component holds one of two values; for a component that names another *)
(* entity (NetOwner, ParentContainer, EquippedBy) the two are an entity    *)
(* the system's lookup finds and one it does not find.                     *)
(***************************************************************************)
\* most changes the game logic makes to the entity in one behaviour
MaxMutations == 2

Components ==
    {"NetOwner", "Flags", "Character", "MapPosition", "Graphic",
     "ParentContainer", "Quantity", "EquippedBy", "Notorious"}
\* an entity that a Query::get does not find
Missing == 2
ValuesOf(c) ==
    IF c \in {"NetOwner", "ParentContainer", "EquippedBy"} THEN {0, Missing}
    ELSE {0, 1}

Systems ==
    {"update_players", "update_items_in_world", "update_items_in_containers",
     "update_equipped_items", "update_characters"}
States ==
    {"PlayerState", "WorldItemState", "ContainedItemState",
     "EquippedItemState", "CharacterState"}

\* the cached state a system inserts, refreshes and removes
StateOf(system) ==
    CASE system = "update_players"             -> "PlayerState"
      [] system = "update_items_in_world"      -> "WorldItemState"
      [] system = "update_items_in_containers" -> "ContainedItemState"
      [] system = "update_equipped_items"      -> "EquippedItemState"
      [] system = "update_characters"          -> "CharacterState"

\* the components the system's first two queries ask for, which are those
\* one of which its third query asks to be absent
Required(system) ==
    CASE system = "update_players" ->
            {"NetOwner", "Flags", "Character", "MapPosition"}
      [] system = "update_items_in_world" ->
            {"Flags", "Graphic", "MapPosition"}
      [] system = "update_items_in_containers" ->
            {"Graphic", "ParentContainer"}
      [] system = "update_equipped_items" ->
            {"Graphic", "EquippedBy"}
      [] system = "update_characters" ->
            {"Flags", "Character", "MapPosition", "Notorious"}

\* the Changed<..> filters of the system's second query
Watched(system) ==
    CASE system = "update_players" -> {"Character", "MapPosition"}
      [] system = "update_items_in_world" ->
            {"Graphic", "MapPosition", "Quantity"}
      [] system = "update_items_in_containers" ->
            {"Graphic", "ParentContainer", "Quantity"}
      [] system = "update_equipped_items" -> {"Graphic", "EquippedBy"}
      [] system = "update_characters" ->
            {"Character", "MapPosition", "Notorious"}

\* the With<..> filter of the system's third query
RemovedWith(system) ==
    CASE system = "update_players"             -> "PlayerState"
      [] system = "update_items_in_world"      -> "WorldItemState"
      [] system = "update_items_in_containers" -> "WorldItemState"
      [] system = "update_equipped_items"      -> "EquippedItemState"
      [] system = "update_characters"          -> "CharacterState"

\* `quantity.map_or(1, |q| q.quantity)'
QuantityOf(quantity) == IF IsSome(quantity) THEN Unwrap(quantity) ELSE 1

\* the state a system builds from the components, for an entity that has
\* the required ones
NewState(system, comps) ==
    CASE system = "update_players" ->
            [character |-> Unwrap(comps["Character"]),
             flags |-> Unwrap(comps["Flags"]),
             position |-> Unwrap(comps["MapPosition"])]
      [] system = "update_items_in_world" ->
            [position |-> Unwrap(comps["MapPosition"]),
             graphic |-> Unwrap(comps["Graphic"]),
             quantity |-> QuantityOf(comps["Quantity"]),
             flags |-> Unwrap(comps["Flags"])]
      [] system = "update_items_in_containers" ->
            [parent_id |-> Unwrap(comps["ParentContainer"]),
             graphic |-> Unwrap(comps["Graphic"]),
             position |-> Unwrap(comps["ParentContainer"]),
             grid_index |-> Unwrap(comps["ParentContainer"]),
             quantity |-> QuantityOf(comps["Quantity"])]
      [] system = "update_equipped_items" ->
            [parent_id |-> Unwrap(comps["EquippedBy"]),
             slot |-> Unwrap(comps["EquippedBy"]),
             graphic |-> Unwrap(comps["Graphic"])]
      [] system = "update_characters" ->
            [position |-> Unwrap(comps["MapPosition"]),
             character |-> Unwrap(comps["Character"]),
             notoriety |-> Unwrap(comps["Notorious"]),
             flags |-> Unwrap(comps["Flags"])]

\* the Query::get at the head of a loop body finds the entity the component
\* names: clients.get(owner.client_entity), net_entities.get(parent.parent),
\* net_entities.get(equipped.parent); the other systems look nothing up
LookupFinds(system, comps) ==
    CASE system = "update_players" -> Unwrap(comps["NetOwner"]) # Missing
      [] system = "update_items_in_containers" ->
            Unwrap(comps["ParentContainer"]) # Missing
      [] system = "update_equipped_items" ->
            Unwrap(comps["EquippedBy"]) # Missing
      [] OTHER -> TRUE

\* `if new_state == *state { continue; }'
SameState_Never(new_state, state) == FALSE
SameState(new_state, state) == new_state = state

\* packets the system's send hands to the client: update_players sends to
\* the owner with send_packet, the others call send_update, which sends to
\* a client whose CanSee holds the entity
Sends(system, client) ==
    IF system = "update_players" \/ client.can_see THEN 1 ELSE 0
\* HasSeen after send_update (update.rs:22-24)
HasSeenAfter(system, client) ==
    IF system # "update_players" /\ client.can_see THEN TRUE
    ELSE client.has_seen

NoRun ==
    [system |-> "none", before |-> None, derived |-> None,
     changed |-> FALSE, sent |-> 0]

Archetypes ==
    { \* a player's character
      [c \in Components |->
         IF c \in {"NetOwner", "Flags", "Character", "MapPosition", "Notorious"}
         THEN Some(0) ELSE None],
      \* an item lying in the world
      [c \in Components |->
         IF c \in {"Flags", "Graphic", "MapPosition"} THEN Some(0) ELSE None],
      \* an item in a container
      [c \in Components |->
         IF c \in {"Graphic", "ParentContainer"} THEN Some(0) ELSE None],
      \* an item a character wears
      [c \in Components |->
         IF c \in {"Graphic", "EquippedBy"} THEN Some(0) ELSE None] }

\* a freshly spawned entity: every component counts as changed for every
\* system, and no state is cached
InitWorld ==
    /\ new_io(FALSE, FALSE)
    /\ NoBroadcast /\ NoAnyPackets /\ NoRegistry /\ NoTwofish /\ NoEnd
    /\ u_clients = << >> /\ u_call = << >> /\ NoSeen
    /\ \E comps \in Archetypes :
          /\ ecs_entity = [comps |-> comps, states |-> [s \in States |-> None]]
          /\ ecs_dirty = [system \in Systems |->
                            {c \in Watched(system) : IsSome(comps[c])}]
    /\ \E can_see \in BOOLEAN :
          ecs_client = [can_see |-> can_see, has_seen |-> FALSE]
    /\ ecs_run = NoRun
    /\ ecs_mutations = 0

world_frame ==
    << core_vars, bcast_vars, any_vars, registry_vars, twofish_vars, end_vars,
       send_update_vars, seen_vars >>

\* the game logic inserts the component or writes to it through a mutable
\* reference, with the value it held or another
WriteComponent(c, v) ==
    /\ ecs_mutations < MaxMutations
    /\ ecs_entity' = [ecs_entity EXCEPT !.comps[c] = Some(v)]
    /\ ecs_dirty' = [system \in Systems |->
                        ecs_dirty[system] \cup ({c} \cap Watched(system))]
    /\ ecs_run' = NoRun
    /\ ecs_mutations' = ecs_mutations + 1
    /\ UNCHANGED << ecs_client, world_frame >>

\* the game logic removes the component; Changed<..> does not see a removal
RemoveComponent(c) ==
    /\ ecs_mutations < MaxMutations
    /\ IsSome(ecs_entity.comps[c])
    /\ ecs_entity' = [ecs_entity EXCEPT !.comps[c] = None]
    /\ ecs_dirty' = [system \in Systems |-> ecs_dirty[system] \ {c}]
    /\ ecs_run' = NoRun
    /\ ecs_mutations' = ecs_mutations + 1
    /\ UNCHANGED << ecs_client, world_frame >>

\* One run of a system over the entity.  The entity is in at most one of
\* the three queries: `added' and `updated' need every required component,
\* `removed' needs one of them absent.
RunSystem(system) ==
    LET comps == ecs_entity.comps
        state == ecs_entity.states[StateOf(system)]
        matched == \A c \in Required(system) : IsSome(comps[c])
        changed == \E c \in Watched(system) :
                      c \in ecs_dirty[system] /\ IsSome(comps[c])
        added == matched /\ ~IsSome(state)
        updated == matched /\ IsSome(state) /\ changed
        removed == /\ IsSome(ecs_entity.states[RemovedWith(system)])
                   /\ ~matched
        \* the loop body goes past the lookup and, in the second loop, past
        \* the comparison
        built == (added \/ updated) /\ LookupFinds(system, comps)
        new_state == IF built THEN Some(NewState(system, comps)) ELSE None
        stored == built /\ (added \/ ~SameState(Unwrap(new_state), Unwrap(state)))
    IN  /\ ecs_entity' =
              [ecs_entity EXCEPT
                 !.states[StateOf(system)] =
                     IF stored THEN new_state
                     ELSE IF removed THEN None
                     ELSE @]
        /\ ecs_client' =
              IF stored
              THEN [ecs_client EXCEPT !.has_seen = HasSeenAfter(system, ecs_client)]
              ELSE ecs_client
        /\ ecs_dirty' = [ecs_dirty EXCEPT ![system] = {}]
        /\ ecs_run' = [system |-> system, before |-> state,
                       derived |-> new_state, changed |-> changed,
                       sent |-> IF stored THEN Sends(system, ecs_client) ELSE 0]
        /\ UNCHANGED << ecs_mutations, world_frame >>

update_players == RunSystem("update_players")
update_items_in_world == RunSystem("update_items_in_world")
update_items_in_containers == RunSystem("update_items_in_containers")
update_equipped_items == RunSystem("update_equipped_items")
update_characters == RunSystem("update_characters")

GameLogicWrites == \E c \in Components : \E v \in ValuesOf(c) : WriteComponent(c, v)
GameLogicRemoves == \E c \in Components : RemoveComponent(c)

NextWorld ==
    \/ GameLogicWrites
    \/ GameLogicRemoves
    \/ update_players
    \/ update_items_in_world
    \/ update_items_in_containers
    \/ update_equipped_items
    \/ update_characters

SpecWorld == InitWorld /\ [][NextWorld]_vars

\* the entity's cached state of a system, and whether the entity has the
\* components the system asks for
Cached(system) == ecs_entity.states[StateOf(system)]
HasRequired(system) == \A c \in Required(system) : IsSome(ecs_entity.comps[c])

\* C33 as stated: after update_items_in_containers has run, an entity that
\* lacks Graphic or lacks ParentContainer carries no ContainedItemState,
\* whether or not it has a WorldItemState.
C33_TakenOutLosesState ==
    (ecs_run.system = "update_items_in_containers"
        /\ ~HasRequired("update_items_in_containers"))
    => ~IsSome(Cached("update_items_in_containers"))

\* the systems that cache the entity's Flags
FlagSystems == {"update_players", "update_items_in_world", "update_characters"}

\* C34 as stated: after update_players, update_items_in_world or
\* update_characters has run, the cached state of a tracked entity is the
\* state derived from its current components, Flags included.
C34_CacheIsDerivedState ==
    \A system \in FlagSystems :
        (/\ ecs_run.system = system
         /\ IsSome(Cached(system)) /\ HasRequired(system)
         /\ LookupFinds(system, ecs_entity.comps))
        => Cached(system) = Some(NewState(system, ecs_entity.comps))

\* C35: a run of an update system over an entity that was tracked sends a
\* packet only if it replaces the cached state by a different one, the one
\* it derived; when the derived state equals the cached one it sends nothing
\* and leaves the cache, also when a watched component was flagged changed.
C35_SendsOnlyOnReplace ==
    (ecs_run.system \in Systems /\ IsSome(ecs_run.before)) =>
        /\ ecs_run.sent > 0 =>
              /\ Cached(ecs_run.system) # ecs_run.before
              /\ IsSome(ecs_run.derived)
              /\ Cached(ecs_run.system) = ecs_run.derived
        /\ ecs_run.derived = ecs_run.before =>
              /\ ecs_run.sent = 0
              /\ Cached(ecs_run.system) = ecs_run.before

\* a system ran over a tracked entity one of whose watched components was
\* flagged changed, derived the state it had cached and sent nothing
C35_Witness ==
    /\ ecs_run.system \in Systems /\ IsSome(ecs_run.before)
    /\ ecs_run.changed /\ ecs_run.derived = ecs_run.before
    /\ ecs_run.sent = 0
    /\ ecs_client.can_see

(***************************************************************************)
(* SpecSeen: what the clients can see and have seen (update.rs:13-29 and   *)
(* 489-529).  Each client holds CanSee and HasSeen, two sets of entities;  *)
(* the visibility logic writes CanSee, send_update is called for an entity *)
(* by the systems above, send_hidden_entities runs over the clients whose  *)
(* CanSee was written since it last ran, and send_remove_entity runs over  *)
(* the entities whose NetEntity was removed since it last ran.  The        *)
(* NetEntityLookup resource is kept by code outside update.rs: when an     *)
(* entity loses its NetEntity the lookup has dropped its id by the time    *)
(* send_remove_entity runs, or has not.  A panic ends the behaviour.       *)
(***************************************************************************)
\* clients of the world
MaxSeenClients == 2
\* writes to CanSee and removals of NetEntity in one behaviour
MaxSeenChanges == 3

Entities == {1, 2}

\* the record of a run: the system, the clients as it found them, the
\* entities it was run for, and for each client the entities it was sent a
\* DeleteEntity for; `changes' counts what the world around has done so far
SeenRun(system, status, entities, deleted, changes) ==
    [system |-> system, status |-> status, before |-> vis_clients,
     entities |-> entities, deleted |-> deleted, removed |-> {},
     changes |-> changes]

NoneDeleted == [i \in DOMAIN vis_clients |-> {}]

InitSeen ==
    /\ new_io(FALSE, FALSE)
    /\ NoBroadcast /\ NoAnyPackets /\ NoRegistry /\ NoTwofish /\ NoEnd
    /\ u_clients = << >> /\ u_call = << >> /\ NoWorld
    /\ \E n \in 1..MaxSeenClients :
          vis_clients = [i \in 1..n |->
                           [can_see |-> {}, has_seen |-> {}, changed |-> TRUE]]
    /\ vis_lookup = Entities
    /\ vis_removals = {}
    /\ vis_run = [system |-> "none", status |-> "ok", before |-> << >>,
                  entities |-> Entities, deleted |-> << >>, removed |-> {},
                  changes |-> 0]

seen_frame ==
    << core_vars, bcast_vars, any_vars, registry_vars, twofish_vars, end_vars,
       send_update_vars, world_vars >>

\* the entities that hold a NetEntity: all at first, the ones not removed
\* since
Networked == vis_run.entities

\* the visibility logic writes the CanSee of a client
WriteCanSee(i, entities) ==
    /\ vis_run.status = "ok"
    /\ vis_run.changes < MaxSeenChanges
    /\ vis_clients' = [vis_clients EXCEPT ![i].can_see = entities,
                                          ![i].changed = TRUE]
    /\ vis_run' = [SeenRun("none", "ok", Networked, NoneDeleted,
                           vis_run.changes + 1) EXCEPT !.before = << >>]
    /\ UNCHANGED << vis_lookup, vis_removals, seen_frame >>

\* an entity loses its NetEntity; the lookup forgets its id now or keeps it
RemoveNetEntity(entity, forgotten) ==
    /\ vis_run.status = "ok"
    /\ vis_run.changes < MaxSeenChanges
    /\ entity \in Networked
    /\ vis_removals' = vis_removals \cup {entity}
    /\ vis_lookup' = IF forgotten THEN vis_lookup \ {entity} ELSE vis_lookup
    /\ vis_run' = [SeenRun("none", "ok", Networked \ {entity}, NoneDeleted,
                           vis_run.changes + 1) EXCEPT !.before = << >>]
    /\ UNCHANGED << vis_clients, seen_frame >>

\* the clients of `clients' whose CanSee holds the entity, in the order of
\* the iterator
SeeingClients(clients, entity) ==
    {i \in DOMAIN clients : entity \in clients[i].can_see}

\* the clients send_update reaches line 24 for: all that see the entity when
\* at most one does; else the first two, the call panicking at the second
\* (line 25)
ReachedClients(clients, entity) ==
    LET seeing == SeeingClients(clients, entity)
    IN  IF Cardinality(seeing) <= 1 THEN seeing
        ELSE {i \in seeing : Cardinality({j \in seeing : j < i}) <= 1}

\* send_update(clients, entity, factory) (update.rs:13-29), called by a
\* system for an entity that holds a NetEntity
SendUpdate(entity) ==
    /\ vis_run.status = "ok"
    /\ entity \in Networked
    /\ vis_clients' =
          [i \in DOMAIN vis_clients |->
              IF i \in ReachedClients(vis_clients, entity)
              THEN [vis_clients[i] EXCEPT !.has_seen = @ \cup {entity}]
              ELSE vis_clients[i]]
    /\ vis_run' = SeenRun("send_update",
                          IF Cardinality(SeeingClients(vis_clients, entity)) <= 1
                          THEN "ok" ELSE "panic",
                          Networked, NoneDeleted, vis_run.changes)
    /\ UNCHANGED << vis_lookup, vis_removals, seen_frame >>

\* `has_seen.entities.difference(&can_see.entities)' (update.rs:494)
ToRemove_All(has_seen, can_see) == has_seen
ToRemove(has_seen, can_see) == has_seen \ can_see

\* send_hidden_entities (update.rs:489-505): over the clients with
\* Changed<CanSee>
send_hidden_entities ==
    /\ vis_run.status = "ok"
    /\ vis_clients' =
          [i \in DOMAIN vis_clients |->
              IF vis_clients[i].changed
              THEN [vis_clients[i] EXCEPT
                      !.has_seen = @ \ ToRemove(@, vis_clients[i].can_see),
                      !.changed = FALSE]
              ELSE vis_clients[i]]
    /\ vis_run' =
          SeenRun("send_hidden_entities", "ok", Networked,
                  [i \in DOMAIN vis_clients |->
                      IF vis_clients[i].changed
                      THEN ToRemove(vis_clients[i].has_seen,
                                    vis_clients[i].can_see) \cap vis_lookup
                      ELSE {}],
                  vis_run.changes)
    /\ UNCHANGED << vis_lookup, vis_removals, seen_frame >>

\* the removals send_remove_entity goes past line 515 for
WithId(removals, lookup) == removals \cap lookup

\* send_remove_entity (update.rs:507-529): over the removals of NetEntity
\* not read yet
send_remove_entity ==
    /\ vis_run.status = "ok"
    /\ vis_removals # {}
    /\ vis_clients' =
          [i \in DOMAIN vis_clients |->
              [vis_clients[i] EXCEPT
                 !.has_seen = @ \ WithId(vis_removals, vis_lookup)]]
    /\ vis_removals' = {}
    /\ vis_run' =
          [SeenRun("send_remove_entity", "ok", Networked,
                   [i \in DOMAIN vis_clients |->
                       vis_clients[i].has_seen
                           \cap WithId(vis_removals, vis_lookup)],
                   vis_run.changes)
              EXCEPT !.removed = vis_removals]
    /\ UNCHANGED << vis_lookup, seen_frame >>

VisibilityChanges ==
    \E i \in DOMAIN vis_clients : \E entities \in SUBSET Entities :
        WriteCanSee(i, entities)
EntityRemoved ==
    \E entity \in Entities : \E forgotten \in BOOLEAN :
        RemoveNetEntity(entity, forgotten)
SystemSendsUpdate == \E entity \in Entities : SendUpdate(entity)

NextSeen ==
    \/ VisibilityChanges
    \/ EntityRemoved
    \/ SystemSendsUpdate
    \/ send_hidden_entities
    \/ send_remove_entity

SpecSeen == InitSeen /\ [][NextSeen]_vars

\* C36: after send_hidden_entities has run, every client whose CanSee had
\* changed has a HasSeen within its CanSee, which lost exactly the entities
\* that were in HasSeen and not in CanSee, and the HasSeen of the other
\* clients is as it was; a send_update adds to a client's HasSeen nothing
\* but the entity it is called for, and only when the client's CanSee holds
\* it.
C36_HasSeenWithinCanSee ==
    /\ vis_run.system = "send_hidden_entities" =>
          \A i \in DOMAIN vis_clients :
              IF vis_run.before[i].changed
              THEN /\ vis_clients[i].has_seen \subseteq vis_clients[i].can_see
                   /\ vis_clients[i].has_seen =
                         vis_run.before[i].has_seen \cap vis_clients[i].can_see
              ELSE vis_clients[i].has_seen = vis_run.before[i].has_seen
    /\ vis_run.system = "send_update" =>
          \A i \in DOMAIN vis_clients :
              /\ vis_run.before[i].has_seen \subseteq vis_clients[i].has_seen
              /\ \A entity \in vis_clients[i].has_seen \ vis_run.before[i].has_seen :
                    entity \in vis_clients[i].can_see

\* send_hidden_entities ran over a client that had seen an entity it can no
\* longer see and one it still can, and took the first from its HasSeen
C36_Witness ==
    /\ vis_run.system = "send_hidden_entities"
    /\ \E i \in DOMAIN vis_clients :
          /\ vis_run.before[i].changed
          /\ vis_run.before[i].has_seen = Entities
          /\ vis_clients[i].has_seen # {}
          /\ vis_clients[i].has_seen # Entities

\* C37 as stated: after send_remove_entity has run, no client's HasSeen
\* holds an entity whose removal it has read, whether or not the lookup
\* still had an id for the entity.
C37_RemovedIsUnseen ==
    vis_run.system = "send_remove_entity" =>
        \A i \in DOMAIN vis_clients :
            vis_clients[i].has_seen \cap vis_run.removed = {}

(***************************************************************************)
(* Typed and erased sends, checked under SpecWriter.  send::<T> takes the  *)
(* kind, the fixed length and the encoder from T (mod.rs:264-271);         *)
(* send_any takes them from the registration stored under the packet's     *)
(* kind (mod.rs:286-294, 113-119), whose encoder casts the value to the    *)
(* registered type (mod.rs:56-60).                                         *)
(***************************************************************************)
\* types whose values a caller can pass to send and wrap in an AnyPacket
PacketTypes == SendTypes \cup WrapTypes

\* what the encoder registered under the kind of T can do on a value of T
\* whose own encoder does enc: the same when the registration is T's own;
\* when it is another type's, that type's encoder runs over a value that is
\* not of its type, and any outcome is possible
ErasedEncodes(T, enc) ==
    LET slot == packet_registry[PacketKind(T)]
    IN  IF IsSome(slot) /\ Unwrap(slot).type # T THEN EncodeOutcomes
        ELSE {enc}

\* C30 as stated: from any state of the Writer, for every packet value and
\* version, send and send_any of the value wrapped in an AnyPacket return the
\* same outcome, pass the same bytes to the stream and leave the same
\* Writer.
C30_SendAnyIsSend ==
    w_result.status # "panic" =>
        \A v \in Versions, T \in PacketTypes, enc \in EncodeOutcomes :
            \A erased \in ErasedEncodes(T, enc) :
                SendAnyStep(w_has_sent, w_buffer, w_writer, outbound, closed,
                            v, AnyPacketOf(T), erased)
                    = SendStep(w_has_sent, w_buffer, w_writer, outbound,
                               closed, v, T, enc)

====
